---- MODULE Spec2Model ----
(***************************************************************************)
(* A model of the Redis-protocol reactor service of libxev-go:             *)
(*   pkg/redisproto  - RESP2 Value, Encode, Parser.Feed                    *)
(*   pkg/redismvp    - Store, clientConn, Server                           *)
(* Bytes are one-character strings, byte strings are sequences of them.    *)
(* Offsets into byte strings are 0-based as in the Go source; data[i] of   *)
(* the source is data[i+1] here.                                           *)
(***************************************************************************)
EXTENDS Integers, Sequences, FiniteSets, TLC

\* ------------------------------------------------------------------ bounds
\* Longest raw byte string enumerated as parser input.
MaxRawLen == 3
\* Most frames concatenated into one structured parser input.
MaxFrames == 2
\* Longest array built by the round-trip value generator.
MaxArrayElems == 2
\* The count of Feed calls saturates here.
FeedCallsCap == 2

\* ------------------------------------------------------------------- bytes
CR == "\r"
LF == "\n"
CRLF == <<CR, LF>>

Digits == <<"0", "1", "2", "3", "4", "5", "6", "7", "8", "9">>

IsDigit(b) == \E i \in 1..10 : Digits[i] = b

DigitVal(b) == (CHOOSE i \in 1..10 : Digits[i] = b) - 1

\* Width in bits of the signed integers of the model.  The source parses and
\* formats int64 (bitSize 64); the model keeps two's-complement behaviour at
\* this narrower width, which still exceeds every parser limit.
IntBits == 31

IntMax == 2^(IntBits - 1) - 1
IntMin == -IntMax - 1

\* Magnitude of a non-empty digit string, or -1 when it exceeds limit.
RECURSIVE Magnitude(_, _, _)
Magnitude(ds, acc, limit) ==
    IF ds = <<>> THEN acc
    ELSE LET d == DigitVal(Head(ds))
         IN IF acc > (limit - d) \div 10 THEN -1
            ELSE Magnitude(Tail(ds), acc * 10 + d, limit)

\* strconv.ParseInt(s, 10, 64): optional sign, at least one digit, digits
\* only, range checked.
ParseInt(s) ==
    LET signed == Len(s) > 0 /\ s[1] \in {"+", "-"}
        neg == Len(s) > 0 /\ s[1] = "-"
        ds == IF signed THEN Tail(s) ELSE s
        limit == IF neg THEN IntMax + 1 ELSE IntMax
    IN IF ds = <<>> \/ \E i \in 1..Len(ds) : ~IsDigit(ds[i])
       THEN [ok |-> FALSE, n |-> 0]
       ELSE LET m == Magnitude(ds, 0, limit)
            IN IF m = -1 THEN [ok |-> FALSE, n |-> 0]
               ELSE [ok |-> TRUE, n |-> IF neg THEN -m ELSE m]

RECURSIVE FormatUint(_)
FormatUint(n) ==
    IF n < 10 THEN <<Digits[n + 1]>>
    ELSE FormatUint(n \div 10) \o <<Digits[(n % 10) + 1]>>

\* strconv.AppendInt(dst, n, 10) / strconv.FormatInt(n, 10)
FormatInt(n) == IF n < 0 THEN <<"-">> \o FormatUint(-n) ELSE FormatUint(n)

\* ------------------------------------------------------------------ values
KindSimpleString == "simple_string"
KindError == "error"
KindInteger == "integer"
KindBulkString == "bulk_string"
KindArray == "array"
KindNull == "null"

\* Value{}: every field at its zero value.  bulkNil is Bulk == nil.
ZeroValue ==
    [kind |-> KindSimpleString, str |-> <<>>, int |-> 0,
     bulk |-> <<>>, bulkNil |-> TRUE, array |-> <<>>]

SimpleString(s) == [ZeroValue EXCEPT !.kind = KindSimpleString, !.str = s]
Error(s) == [ZeroValue EXCEPT !.kind = KindError, !.str = s]
Integer(n) == [ZeroValue EXCEPT !.kind = KindInteger, !.int = n]
BulkString(b) == [ZeroValue EXCEPT !.kind = KindBulkString, !.bulk = b, !.bulkNil = FALSE]
BulkAbsent == [ZeroValue EXCEPT !.kind = KindBulkString]
Array(a) == [ZeroValue EXCEPT !.kind = KindArray, !.array = a]
Null == [ZeroValue EXCEPT !.kind = KindNull]

hasRESPNewline(s) == \E i \in 1..Len(s) : s[i] = CR \/ s[i] = LF

\* Mutant of validateForEncode: only SimpleString payloads are checked.
validateForEncode_SkipsError(v) ==
    IF v.kind = KindSimpleString /\ hasRESPNewline(v.str)
    THEN "contains CR or LF"
    ELSE ""

\* nil error is "", otherwise the error text.
validateForEncode(v) ==
    IF v.kind \in {KindSimpleString, KindError} /\ hasRESPNewline(v.str)
    THEN "contains CR or LF"
    ELSE ""

\* ----------------------------------------------------------------- encoder
\* AppendEncode returns [bytes, err]; on error bytes is nil (<<>>).
RECURSIVE AppendEncode(_, _)
RECURSIVE AppendEncodeItems(_, _)

AppendEncodeItems(dst, items) ==
    IF items = <<>> THEN [bytes |-> dst, err |-> ""]
    ELSE LET r == AppendEncode(dst, Head(items))
         IN IF r.err # "" THEN [bytes |-> <<>>, err |-> r.err]
            ELSE AppendEncodeItems(r.bytes, Tail(items))

\* AppendEncode with a nil check in the bulk branch: an absent payload is written
\* as the null bulk string.
AppendEncode_AbsentBulkAsNull(dst, v) ==
    IF validateForEncode(v) # "" THEN [bytes |-> <<>>, err |-> validateForEncode(v)]
    ELSE CASE v.kind = KindSimpleString ->
                [bytes |-> dst \o <<"+">> \o v.str \o CRLF, err |-> ""]
           [] v.kind = KindError ->
                [bytes |-> dst \o <<"-">> \o v.str \o CRLF, err |-> ""]
           [] v.kind = KindInteger ->
                [bytes |-> dst \o <<":">> \o FormatInt(v.int) \o CRLF, err |-> ""]
           [] v.kind = KindBulkString /\ v.bulkNil ->
                [bytes |-> dst \o <<"$", "-", "1">> \o CRLF, err |-> ""]
           [] v.kind = KindBulkString /\ ~v.bulkNil ->
                [bytes |-> dst \o <<"$">> \o FormatInt(Len(v.bulk)) \o CRLF
                               \o v.bulk \o CRLF,
                 err |-> ""]
           [] v.kind = KindArray ->
                AppendEncodeItems(dst \o <<"*">> \o FormatInt(Len(v.array)) \o CRLF,
                                  v.array)
           [] v.kind = KindNull ->
                [bytes |-> dst \o <<"$", "-", "1">> \o CRLF, err |-> ""]

AppendEncode(dst, v) ==
    IF validateForEncode(v) # "" THEN [bytes |-> <<>>, err |-> validateForEncode(v)]
    ELSE CASE v.kind = KindSimpleString ->
                [bytes |-> dst \o <<"+">> \o v.str \o CRLF, err |-> ""]
           [] v.kind = KindError ->
                [bytes |-> dst \o <<"-">> \o v.str \o CRLF, err |-> ""]
           [] v.kind = KindInteger ->
                [bytes |-> dst \o <<":">> \o FormatInt(v.int) \o CRLF, err |-> ""]
           [] v.kind = KindBulkString ->
                [bytes |-> dst \o <<"$">> \o FormatInt(Len(v.bulk)) \o CRLF
                               \o v.bulk \o CRLF,
                 err |-> ""]
           [] v.kind = KindArray ->
                AppendEncodeItems(dst \o <<"*">> \o FormatInt(Len(v.array)) \o CRLF,
                                  v.array)
           [] v.kind = KindNull ->
                [bytes |-> dst \o <<"$", "-", "1">> \o CRLF, err |-> ""]

Encode(v) == AppendEncode(<<>>, v)

\* ------------------------------------------------------------------ parser
defaultMaxBulkLen == 536870912
defaultMaxArrayLen == 1048576
defaultMaxDepth == 64

NewParser ==
    [buf |-> <<>>, maxBulkLen |-> defaultMaxBulkLen,
     maxArrayLen |-> defaultMaxArrayLen, maxDepth |-> defaultMaxDepth]

\* bytes.Index(data[offset:], "\r\n"), as an offset into data: the first
\* i >= offset with CR LF at data[i], data[i+1] (0-based), or -1.
RECURSIVE IndexCRLF(_, _)
IndexCRLF(data, i) ==
    IF i + 2 > Len(data) THEN -1
    ELSE IF data[i + 1] = CR /\ data[i + 2] = LF THEN i
    ELSE IndexCRLF(data, i + 1)

\* Mutant of readLine: the returned offset stops on the LF.
readLine_NextOnLF(data, offset) ==
    LET end == IndexCRLF(data, offset)
    IN IF offset >= Len(data) \/ end < 0
       THEN [line |-> <<>>, next |-> 0, ok |-> FALSE]
       ELSE [line |-> SubSeq(data, offset + 1, end), next |-> end + 1, ok |-> TRUE]

\* readLine returns [line, next, ok].
readLine(data, offset) ==
    LET end == IndexCRLF(data, offset)
    IN IF offset >= Len(data) \/ end < 0
       THEN [line |-> <<>>, next |-> 0, ok |-> FALSE]
       ELSE [line |-> SubSeq(data, offset + 1, end), next |-> end + 2, ok |-> TRUE]

Incomplete == [v |-> ZeroValue, next |-> 0, complete |-> FALSE, err |-> ""]
\* Mutant of Malformed: malformed input is reported as incomplete.
Malformed_AsIncomplete(msg) == Incomplete

Malformed(msg) == [v |-> ZeroValue, next |-> 0, complete |-> FALSE, err |-> msg]
Complete(v, next) == [v |-> v, next |-> next, complete |-> TRUE, err |-> ""]

\* Mutant of bulkPayload: a payload whose bytes have not all arrived is
\* reported as malformed.
bulkPayload_TruncatedIsMalformed(data, next, n) ==
    LET need == next + n + 2
    IN IF need > Len(data) \/ data[next + n + 1] # CR \/ data[next + n + 2] # LF
       THEN Malformed("bulk string missing CRLF terminator")
       ELSE Complete(BulkString(SubSeq(data, next + 1, next + n)), need)

\* parseAt, the '$' case once the length n is accepted: the n payload bytes
\* at offset next and the CR LF behind them.
bulkPayload(data, next, n) ==
    LET need == next + n + 2
    IN IF need > Len(data) THEN Incomplete
       ELSE IF data[next + n + 1] # CR \/ data[next + n + 2] # LF
            THEN Malformed("bulk string missing CRLF terminator")
       ELSE Complete(BulkString(SubSeq(data, next + 1, next + n)), need)

\* Mutant of overLimit: a length equal to the limit is refused too.
overLimit_AtLimit(n, max) == n >= max

\* parseAt's limit tests, n > int64(p.maxBulkLen) and n > int64(p.maxArrayLen).
overLimit(n, max) == n > max

\* parseAt returns [v, next, complete, err].
RECURSIVE parseAt(_, _, _, _)
RECURSIVE parseItems(_, _, _, _, _, _)
RECURSIVE parseItems_PartialArray(_, _, _, _, _, _)

\* Mutant of parseItems: an incomplete child ends the array with the
\* children decoded so far.
parseItems_PartialArray(p, data, cursor, depth, i, arr) ==
    IF i = 0 THEN Complete(Array(arr), cursor)
    ELSE LET item == parseAt(p, data, cursor, depth + 1)
         IN IF item.err # "" THEN Malformed(item.err)
            ELSE IF ~item.complete THEN Complete(Array(arr), cursor)
            ELSE parseItems_PartialArray(p, data, item.next, depth, i - 1,
                                         Append(arr, item.v))

\* The loop of the '*' case: i counts the children still to decode.
parseItems(p, data, cursor, depth, i, arr) ==
    IF i = 0 THEN Complete(Array(arr), cursor)
    ELSE LET item == parseAt(p, data, cursor, depth + 1)
         IN IF item.err # "" THEN Malformed(item.err)
            ELSE IF ~item.complete THEN Incomplete
            ELSE parseItems(p, data, item.next, depth, i - 1, Append(arr, item.v))

\* Mutant of parseAt: the depth is tested only once a byte of the value is
\* there.
parseAt_DepthAfterOffset(p, data, offset, depth) ==
    IF offset >= Len(data) THEN Incomplete
    ELSE IF depth > p.maxDepth THEN Malformed("array nesting exceeds max depth")
    ELSE
      LET prefix == data[offset + 1]
          l == readLine(data, offset + 1)
          n == ParseInt(l.line)
      IN CASE prefix \in {"+", "-", ":"} ->
                IF ~l.ok THEN Incomplete
                ELSE IF prefix = "+" THEN Complete(SimpleString(l.line), l.next)
                ELSE IF prefix = "-" THEN Complete(Error(l.line), l.next)
                ELSE IF ~n.ok THEN Malformed("invalid integer")
                ELSE Complete(Integer(n.n), l.next)
           [] prefix = "$" ->
                IF ~l.ok THEN Incomplete
                ELSE IF ~n.ok THEN Malformed("invalid bulk string length")
                ELSE IF n.n = -1 THEN Complete(Null, l.next)
                ELSE IF n.n < -1 THEN Malformed("negative bulk string length")
                ELSE IF overLimit(n.n, p.maxBulkLen)
                     THEN Malformed("bulk string length exceeds limit")
                ELSE bulkPayload(data, l.next, n.n)
           [] prefix = "*" ->
                IF ~l.ok THEN Incomplete
                ELSE IF ~n.ok THEN Malformed("invalid array length")
                ELSE IF n.n < 0 THEN Malformed("negative array length")
                ELSE IF overLimit(n.n, p.maxArrayLen)
                     THEN Malformed("array length exceeds limit")
                ELSE parseItems(p, data, l.next, depth, n.n, <<>>)
           [] OTHER -> Malformed("unknown RESP2 prefix byte")

parseAt(p, data, offset, depth) ==
    IF depth > p.maxDepth THEN Malformed("array nesting exceeds max depth")
    ELSE IF offset >= Len(data) THEN Incomplete
    ELSE
      LET prefix == data[offset + 1]
          l == readLine(data, offset + 1)
          n == ParseInt(l.line)
      IN CASE prefix \in {"+", "-", ":"} ->
                IF ~l.ok THEN Incomplete
                ELSE IF prefix = "+" THEN Complete(SimpleString(l.line), l.next)
                ELSE IF prefix = "-" THEN Complete(Error(l.line), l.next)
                ELSE IF ~n.ok THEN Malformed("invalid integer")
                ELSE Complete(Integer(n.n), l.next)
           [] prefix = "$" ->
                IF ~l.ok THEN Incomplete
                ELSE IF ~n.ok THEN Malformed("invalid bulk string length")
                ELSE IF n.n = -1 THEN Complete(Null, l.next)
                ELSE IF n.n < -1 THEN Malformed("negative bulk string length")
                ELSE IF overLimit(n.n, p.maxBulkLen)
                     THEN Malformed("bulk string length exceeds limit")
                ELSE bulkPayload(data, l.next, n.n)
           [] prefix = "*" ->
                IF ~l.ok THEN Incomplete
                ELSE IF ~n.ok THEN Malformed("invalid array length")
                ELSE IF n.n < 0 THEN Malformed("negative array length")
                ELSE IF overLimit(n.n, p.maxArrayLen)
                     THEN Malformed("array length exceeds limit")
                ELSE parseItems(p, data, l.next, depth, n.n, <<>>)
           [] OTHER -> Malformed("unknown RESP2 prefix byte")

\* The decode loop of Feed over the whole buffer, from offset.
\* Returns [out, offset, err].
RECURSIVE feedLoop(_, _, _, _)
feedLoop(p, buf, offset, out) ==
    IF offset >= Len(buf) THEN [out |-> out, offset |-> offset, err |-> ""]
    ELSE LET r == parseAt(p, buf, offset, 0)
         IN IF r.err # "" THEN [out |-> <<>>, offset |-> offset, err |-> r.err]
            ELSE IF ~r.complete THEN [out |-> out, offset |-> offset, err |-> ""]
            ELSE feedLoop(p, buf, r.next, Append(out, r.v))

\* Mutant of Feed: the unconsumed tail is not kept for the next call.
Feed_DropsTail(p, in) ==
    LET buf == p.buf \o in
        r == feedLoop(p, buf, 0, <<>>)
    IN IF buf = <<>> THEN [p |-> p, out |-> <<>>, err |-> ""]
       ELSE IF r.err # "" THEN [p |-> [p EXCEPT !.buf = <<>>], out |-> <<>>, err |-> r.err]
       ELSE [p |-> [p EXCEPT !.buf = <<>>], out |-> r.out, err |-> ""]

\* Mutant of Feed: the bytes of the frames returned stay in the buffer.
Feed_KeepsConsumed(p, in) ==
    LET buf == p.buf \o in
        r == feedLoop(p, buf, 0, <<>>)
    IN IF buf = <<>> THEN [p |-> p, out |-> <<>>, err |-> ""]
       ELSE IF r.err # "" THEN [p |-> [p EXCEPT !.buf = <<>>], out |-> <<>>, err |-> r.err]
       ELSE [p |-> [p EXCEPT !.buf = buf], out |-> r.out, err |-> ""]

\* Mutant of Feed: the buffer is kept when parseAt reports an error.
Feed_KeepsBufferOnError(p, in) ==
    LET buf == p.buf \o in
        r == feedLoop(p, buf, 0, <<>>)
    IN IF buf = <<>> THEN [p |-> p, out |-> <<>>, err |-> ""]
       ELSE IF r.err # "" THEN [p |-> [p EXCEPT !.buf = buf], out |-> <<>>, err |-> r.err]
       ELSE [p |-> [p EXCEPT !.buf = SubSeq(buf, r.offset + 1, Len(buf))],
             out |-> r.out, err |-> ""]

\* Parser.Feed: [p, out, err] -- the parser after the call, the frames
\* returned and the error ("" for nil).
Feed(p, in) ==
    LET buf == p.buf \o in
        r == feedLoop(p, buf, 0, <<>>)
    IN IF buf = <<>> THEN [p |-> p, out |-> <<>>, err |-> ""]
       ELSE IF r.err # "" THEN [p |-> [p EXCEPT !.buf = <<>>], out |-> <<>>, err |-> r.err]
       ELSE [p |-> [p EXCEPT !.buf = SubSeq(buf, r.offset + 1, Len(buf))],
             out |-> r.out, err |-> ""]

\* ------------------------------------------------------------------- store
\* Store.kv is a function from the keys present to their byte strings.
NewStore == [k \in {} |-> <<>>]

errValueNotInteger == "value is not an integer or out of range"

\* The body of Store.Get under RLock: [v, ok].
StoreGet(kv, key) ==
    IF key \in DOMAIN kv THEN [v |-> kv[key], ok |-> TRUE]
    ELSE [v |-> <<>>, ok |-> FALSE]

\* s.kv[key] = value
MapPut(kv, key, value) ==
    [k \in (DOMAIN kv) \cup {key} |-> IF k = key THEN value ELSE kv[k]]

\* The body of Store.Set under Lock.
StoreSet(kv, key, value) == MapPut(kv, key, value)

\* Mutant of StoreDel: every listing of a key that existed is counted.
StoreDel_CountsEachListing(kv, keys) ==
    [kv |-> [k \in (DOMAIN kv) \ {keys[i] : i \in 1..Len(keys)} |-> kv[k]],
     deleted |-> Cardinality({i \in 1..Len(keys) : keys[i] \in DOMAIN kv})]

\* The body of Store.Del under Lock: [kv, deleted].
RECURSIVE StoreDel(_, _)
StoreDel(kv, keys) ==
    IF keys = <<>> THEN [kv |-> kv, deleted |-> 0]
    ELSE IF Head(keys) \in DOMAIN kv
         THEN LET r == StoreDel([k \in (DOMAIN kv) \ {Head(keys)} |-> kv[k]], Tail(keys))
              IN [kv |-> r.kv, deleted |-> r.deleted + 1]
         ELSE StoreDel(kv, Tail(keys))

\* n++ on a signed integer of IntBits bits.
WrapInc(n) == IF n = IntMax THEN IntMin ELSE n + 1

\* Mutant of IncrOf: the text that was parsed is stored again, the
\* incremented number is only returned.
IncrOf_StoresParsedText(raw) ==
    IF ~raw.ok THEN [store |-> TRUE, value |-> <<"1">>, n |-> 1, err |-> ""]
    ELSE LET parsed == ParseInt(raw.v)
         IN IF ~parsed.ok
            THEN [store |-> FALSE, value |-> <<>>, n |-> 0, err |-> errValueNotInteger]
            ELSE [store |-> TRUE, value |-> FormatInt(parsed.n),
                  n |-> WrapInc(parsed.n), err |-> ""]

\* What Store.Incr does with the map entry it read: [store, value, n, err];
\* store says whether value is written back.
IncrOf(raw) ==
    IF ~raw.ok THEN [store |-> TRUE, value |-> <<"1">>, n |-> 1, err |-> ""]
    ELSE LET parsed == ParseInt(raw.v)
         IN IF ~parsed.ok
            THEN [store |-> FALSE, value |-> <<>>, n |-> 0, err |-> errValueNotInteger]
            ELSE [store |-> TRUE, value |-> FormatInt(WrapInc(parsed.n)),
                  n |-> WrapInc(parsed.n), err |-> ""]

\* Mutant of StoreIncr: a value that does not parse is overwritten.
StoreIncr_OverwritesOnError(kv, key) ==
    LET r == IncrOf(StoreGet(kv, key))
    IN [kv |-> MapPut(kv, key, IF r.store THEN r.value ELSE <<"0">>),
        n |-> r.n, err |-> r.err]

\* The body of Store.Incr under one Lock: [kv, n, err].
StoreIncr(kv, key) ==
    LET r == IncrOf(StoreGet(kv, key))
    IN [kv |-> IF r.store THEN MapPut(kv, key, r.value) ELSE kv,
        n |-> r.n, err |-> r.err]

\* sync.RWMutex: mu is [writer, readers]; writer 0 is none.
NewRWMutex == [writer |-> 0, readers |-> {}]

\* Mutant of CanLock: Lock does not exclude other holders.
CanLock_NoExclusion(mu) == TRUE

\* Lock returns once no writer and no reader holds the mutex.
CanLock(mu) == mu.writer = 0 /\ mu.readers = {}

\* RLock returns once no writer holds the mutex.
CanRLock(mu) == mu.writer = 0

\* ------------------------------------------------------------------ server
\* A Go string literal inside a reply (an error text) is carried as ONE
\* element of the byte sequence; command names, keys, values and everything
\* the parser inspects are carried byte by byte.  A Go string is therefore
\* a sequence whose elements are literals and bytes.
LowerLetters ==
    <<"a", "b", "c", "d", "e", "f", "g", "h", "i", "j", "k", "l", "m",
      "n", "o", "p", "q", "r", "s", "t", "u", "v", "w", "x", "y", "z">>
UpperLetters ==
    <<"A", "B", "C", "D", "E", "F", "G", "H", "I", "J", "K", "L", "M",
      "N", "O", "P", "Q", "R", "S", "T", "U", "V", "W", "X", "Y", "Z">>

\* b -= 'a' - 'A' when 'a' <= b <= 'z'
ToUpperByte(b) ==
    IF \E i \in 1..26 : LowerLetters[i] = b
    THEN UpperLetters[CHOOSE i \in 1..26 : LowerLetters[i] = b]
    ELSE b

\* strings.ToLower(string(command)): every byte but 'A'..'Z' is kept.
ToLower(bytes) ==
    [j \in 1..Len(bytes) |->
        IF \E i \in 1..26 : UpperLetters[i] = bytes[j]
        THEN LowerLetters[CHOOSE i \in 1..26 : UpperLetters[i] = bytes[j]]
        ELSE bytes[j]]

tokenBytes(v) ==
    CASE v.kind = KindBulkString -> [b |-> v.bulk, ok |-> TRUE]
      [] v.kind = KindSimpleString -> [b |-> v.str, ok |-> TRUE]
      [] OTHER -> [b |-> <<>>, ok |-> FALSE]

\* Mutant of tokenString: an Integer is taken as a token.
tokenString_AcceptsInteger(v) ==
    CASE v.kind = KindBulkString -> [s |-> v.bulk, ok |-> TRUE]
      [] v.kind = KindSimpleString -> [s |-> v.str, ok |-> TRUE]
      [] v.kind = KindInteger -> [s |-> FormatInt(v.int), ok |-> TRUE]
      [] OTHER -> [s |-> <<>>, ok |-> FALSE]

tokenString(v) ==
    CASE v.kind = KindBulkString -> [s |-> v.bulk, ok |-> TRUE]
      [] v.kind = KindSimpleString -> [s |-> v.str, ok |-> TRUE]
      [] OTHER -> [s |-> <<>>, ok |-> FALSE]

\* Mutant of commandIs: the token's letters are not put in upper case before
\* the comparison.
commandIs_CaseSensitive(token, name) == token = name

commandIs(token, name) ==
    /\ Len(token) = Len(name)
    /\ \A i \in 1..Len(token) : ToUpperByte(token[i]) = name[i]

appendSimple(dst, s) == dst \o <<"+">> \o s \o CRLF
appendError(dst, s) == dst \o <<"-">> \o s \o CRLF
appendBulk(dst, bulk) == dst \o <<"$">> \o FormatInt(Len(bulk)) \o CRLF \o bulk \o CRLF
appendNull(dst) == dst \o <<"$", "-", "1">> \o CRLF
appendInteger(dst, n) == dst \o <<":">> \o FormatInt(n) \o CRLF
appendWrongArity(dst, cmd) ==
    appendError(dst, <<"ERR wrong number of arguments for '" \o cmd \o "' command">>)

redisError(s) == Error(<<s>>)

\* fmt.Sprintf("ERR Protocol error: invalid command token kind %s", kind)
InvalidToken(dst, v) ==
    appendError(dst, <<"ERR Protocol error: invalid command token kind " \o v.kind>>)

\* clientConn.appendResponse against the store: [dst, kv].
appendResponse(store, dst, frame) ==
    LET a == frame.array
        n == Len(a)
        command == tokenBytes(a[1])
        R(d, k) == [dst |-> d, kv |-> k]
        arg(i) == tokenBytes(a[i])
        key(i) == tokenString(a[i])
        bad == {i \in 2..n : ~key(i).ok}
        first == CHOOSE i \in bad : \A j \in bad : i <= j
        del == StoreDel(store, [i \in 1..(n - 1) |-> key(i + 1).s])
        got == StoreGet(store, key(2).s)
        inc == StoreIncr(store, key(2).s)
    IN IF frame.kind # KindArray
       THEN R(appendError(dst, <<"ERR Protocol error: command must be array">>), store)
       ELSE IF n = 0
       THEN R(appendError(dst, <<"ERR Protocol error: empty command">>), store)
       ELSE IF ~command.ok THEN R(InvalidToken(dst, a[1]), store)
       ELSE IF commandIs(command.b, <<"P", "I", "N", "G">>)
       THEN IF n = 1 THEN R(appendSimple(dst, <<"P", "O", "N", "G">>), store)
            ELSE IF n = 2
            THEN IF ~arg(2).ok THEN R(InvalidToken(dst, a[2]), store)
                 ELSE R(appendBulk(dst, arg(2).b), store)
            ELSE R(appendWrongArity(dst, "ping"), store)
       ELSE IF commandIs(command.b, <<"E", "C", "H", "O">>)
       THEN IF n # 2 THEN R(appendWrongArity(dst, "echo"), store)
            ELSE IF ~arg(2).ok THEN R(InvalidToken(dst, a[2]), store)
            ELSE R(appendBulk(dst, arg(2).b), store)
       ELSE IF commandIs(command.b, <<"S", "E", "T">>)
       THEN IF n # 3 THEN R(appendWrongArity(dst, "set"), store)
            ELSE IF ~key(2).ok THEN R(InvalidToken(dst, a[2]), store)
            ELSE IF ~arg(3).ok THEN R(InvalidToken(dst, a[3]), store)
            ELSE R(appendSimple(dst, <<"O", "K">>), StoreSet(store, key(2).s, arg(3).b))
       ELSE IF commandIs(command.b, <<"G", "E", "T">>)
       THEN IF n # 2 THEN R(appendWrongArity(dst, "get"), store)
            ELSE IF ~key(2).ok THEN R(InvalidToken(dst, a[2]), store)
            ELSE IF ~got.ok THEN R(appendNull(dst), store)
            ELSE R(appendBulk(dst, got.v), store)
       ELSE IF commandIs(command.b, <<"D", "E", "L">>)
       THEN IF n < 2 THEN R(appendWrongArity(dst, "del"), store)
            ELSE IF bad # {} THEN R(InvalidToken(dst, a[first]), store)
            ELSE R(appendInteger(dst, del.deleted), del.kv)
       ELSE IF commandIs(command.b, <<"I", "N", "C", "R">>)
       THEN IF n # 2 THEN R(appendWrongArity(dst, "incr"), store)
            ELSE IF ~key(2).ok THEN R(InvalidToken(dst, a[2]), store)
            ELSE IF inc.err = errValueNotInteger
            THEN R(appendError(dst, <<"ERR value is not an integer or out of range">>), inc.kv)
            ELSE IF inc.err # "" THEN R(appendError(dst, <<"ERR " \o inc.err>>), inc.kv)
            ELSE R(appendInteger(dst, inc.n), inc.kv)
       ELSE R(appendError(dst, <<"ERR unknown command '">> \o ToLower(command.b) \o <<"'">>),
              store)

\* strings.ToUpper on the bytes of a token ('a'..'z' are the letters the
\* tokens under test hold).
ToUpper(bytes) == [j \in 1..Len(bytes) |-> ToUpperByte(bytes[j])]

\* decodeCommand: [name, args, err]; err is "" when the frame is a command.
decodeCommand(frame) ==
    LET a == frame.array
        bad == {i \in 1..Len(a) : ~tokenString(a[i]).ok}
        first == CHOOSE i \in bad : \A j \in bad : i <= j
        parts == [i \in 1..Len(a) |-> tokenString(a[i]).s]
        Failed(e) == [name |-> <<>>, args |-> <<>>, err |-> e]
    IN IF frame.kind # KindArray THEN Failed("command must be array")
       ELSE IF Len(a) = 0 THEN Failed("empty command")
       ELSE IF bad # {} THEN Failed("invalid command token kind " \o a[first].kind)
       ELSE [name |-> ToUpper(parts[1]), args |-> Tail(parts), err |-> ""]

wrongArity(cmd) == redisError("ERR wrong number of arguments for '" \o cmd \o "' command")

\* clientConn.execute, the dispatcher on decodeCommand's result: [v, kv],
\* the reply Value and the store after the command.
execute(store, frame) ==
    LET d == decodeCommand(frame)
        args == d.args
        n == Len(args)
        R(v, k) == [v |-> v, kv |-> k]
        del == StoreDel(store, args)
        got == StoreGet(store, args[1])
        inc == StoreIncr(store, args[1])
    IN IF d.err # "" THEN R(redisError("ERR Protocol error: " \o d.err), store)
       ELSE IF d.name = <<"P", "I", "N", "G">>
       THEN IF n = 0 THEN R(SimpleString(<<"P", "O", "N", "G">>), store)
            ELSE IF n = 1 THEN R(BulkString(args[1]), store)
            ELSE R(wrongArity("ping"), store)
       ELSE IF d.name = <<"E", "C", "H", "O">>
       THEN IF n # 1 THEN R(wrongArity("echo"), store)
            ELSE R(BulkString(args[1]), store)
       ELSE IF d.name = <<"S", "E", "T">>
       THEN IF n # 2 THEN R(wrongArity("set"), store)
            ELSE R(SimpleString(<<"O", "K">>), StoreSet(store, args[1], args[2]))
       ELSE IF d.name = <<"G", "E", "T">>
       THEN IF n # 1 THEN R(wrongArity("get"), store)
            ELSE IF ~got.ok THEN R(Null, store)
            ELSE R(BulkString(got.v), store)
       ELSE IF d.name = <<"D", "E", "L">>
       THEN IF n = 0 THEN R(wrongArity("del"), store)
            ELSE R(Integer(del.deleted), del.kv)
       ELSE IF d.name = <<"I", "N", "C", "R">>
       THEN IF n # 1 THEN R(wrongArity("incr"), store)
            ELSE IF inc.err = errValueNotInteger
            THEN R(redisError("ERR value is not an integer or out of range"), inc.kv)
            ELSE IF inc.err # "" THEN R(redisError("ERR " \o inc.err), inc.kv)
            ELSE R(Integer(inc.n), inc.kv)
       ELSE R(Error(<<"ERR unknown command '">> \o ToLower(d.name) \o <<"'">>), store)

\* The body of the loop of onRead that goes through execute: the reply is
\* encoded, and a reply Encode refuses is replaced: [dst, kv].
executeEncoded(store, dst, frame) ==
    LET r == execute(store, frame)
        encoded == Encode(r.v)
    IN [dst |-> dst \o (IF encoded.err # ""
                        THEN Encode(redisError("ERR internal encode error")).bytes
                        ELSE encoded.bytes),
        kv |-> r.kv]

\* onRead's loop over the decoded frames: [dst, kv].
\* Mutant of appendResponses: each reply is put before the replies already in
\* the buffer.
RECURSIVE appendResponses_NewestFirst(_, _, _)
appendResponses_NewestFirst(store, dst, frames) ==
    IF frames = <<>> THEN [dst |-> dst, kv |-> store]
    ELSE LET r == appendResponse(store, <<>>, Head(frames))
         IN appendResponses_NewestFirst(r.kv, r.dst \o dst, Tail(frames))

RECURSIVE appendResponses(_, _, _)
appendResponses(store, dst, frames) ==
    IF frames = <<>> THEN [dst |-> dst, kv |-> store]
    ELSE LET r == appendResponse(store, dst, Head(frames))
         IN appendResponses(r.kv, r.dst, Tail(frames))

\* xev.Action returned by a callback: Continue re-arms, Stop disarms.
Continue == "continue"
Stop == "stop"

\* len(client.read), the buffer onAccept hands to ReadFunc.
ReadBufferSize == 4096

\* The passes of shutdownInLoop's drain loop.
ShutdownPolls == 32

\* A slot no connection has been accepted into yet.  fd is the descriptor:
\* "none", "open", "shut" (half-closed by syscall.Shutdown) or "closed".
\* armed: the substrate holds an outstanding read on the descriptor.
\* wire: the bytes written to the peer.  last, lastWire: the return of
\* onRead the latest read completion took, and the bytes it wrote.
NoConn ==
    [fd |-> "none", closed |-> FALSE, parser |-> NewParser, armed |-> FALSE,
     wire |-> <<>>, last |-> "none", lastWire |-> <<>>]

\* The Server after Start returned it.
NewServer ==
    [clients |-> {}, pendingFDs |-> <<>>, stopped |-> FALSE, stopCh |-> "open",
     doneCh |-> "open", listener |-> "accepting", loop |-> "open"]

\* syscall.Shutdown(fd, SHUT_RDWR) and syscall.Close(fd) on a descriptor.
SysShutdown(fd) == IF fd = "open" THEN "shut" ELSE fd
SysClose(fd) == IF fd \in {"open", "shut"} THEN "closed" ELSE fd

\* The operators below take and return st = [server, conns, kv]: the Server
\* record, the clientConn of every slot and the Store's map.
\* Mutant of enqueueFD: the descriptor is closed by the caller at once.
enqueueFD_ClosesNow(st, fd) == [st EXCEPT !.conns[fd].fd = SysClose(@)]

\* Server.enqueueFD
enqueueFD(st, fd) == [st EXCEPT !.server.pendingFDs = Append(@, fd)]

\* Mutant of close: the descriptor is closed inside the callback.
close_ClosesDescriptor(st, c) ==
    IF st.conns[c].closed THEN st
    ELSE [st EXCEPT !.conns[c].closed = TRUE,
                    !.server.clients = @ \ {c},
                    !.conns[c].fd = SysClose(@)]

\* Mutant of close: the connection stays in the registry.
close_StaysRegistered(st, c) ==
    IF st.conns[c].closed THEN st
    ELSE enqueueFD([st EXCEPT !.conns[c].closed = TRUE], c)

\* Mutant of close: a half-close precedes the enqueue.
close_HalfCloses(st, c) ==
    IF st.conns[c].closed THEN st
    ELSE enqueueFD([st EXCEPT !.conns[c].closed = TRUE,
                              !.server.clients = @ \ {c},
                              !.conns[c].fd = SysShutdown(@)], c)

\* clientConn.close
close(st, c) ==
    IF st.conns[c].closed THEN st
    ELSE enqueueFD([st EXCEPT !.conns[c].closed = TRUE,
                              !.server.clients = @ \ {c}], c)

\* Mutant of shutdown: no half-close is issued.
shutdown_NoHalfClose(st, c) ==
    IF st.conns[c].closed THEN st
    ELSE [st EXCEPT !.conns[c].closed = TRUE, !.server.clients = @ \ {c}]

\* Mutant of shutdown: the half-closed descriptor is enqueued as close does.
shutdown_Enqueues(st, c) ==
    IF st.conns[c].closed THEN st
    ELSE enqueueFD([st EXCEPT !.conns[c].closed = TRUE,
                              !.server.clients = @ \ {c},
                              !.conns[c].fd = SysShutdown(@)], c)

\* clientConn.shutdown
shutdown(st, c) ==
    IF st.conns[c].closed THEN st
    ELSE [st EXCEPT !.conns[c].closed = TRUE,
                    !.server.clients = @ \ {c},
                    !.conns[c].fd = SysShutdown(@)]

\* syscall.Close of every descriptor of a slice, in order.
RECURSIVE CloseAll(_, _)
CloseAll(conns, fds) ==
    IF fds = <<>> THEN conns
    ELSE CloseAll([conns EXCEPT ![Head(fds)].fd = SysClose(@)], Tail(fds))

\* Mutant of flushPendingFDs: the queue is emptied and its descriptors are
\* not closed.
flushPendingFDs_ForgetsDescriptors(st) == [st EXCEPT !.server.pendingFDs = <<>>]

\* Server.flushPendingFDs
flushPendingFDs(st) ==
    [st EXCEPT !.server.pendingFDs = <<>>,
               !.conns = CloseAll(@, st.server.pendingFDs)]

\* writeAll(c.conn.Fd(), payload): [st, ok].  wok is whether the socket
\* takes the payload; the bytes of a failed write are not counted as sent.
writeAll(st, c, payload, wok) ==
    [st |-> IF wok THEN [st EXCEPT !.conns[c].wire = @ \o payload] ELSE st,
     ok |-> wok]

\* Mutant of closeOnWriteError: the error of writeAll is dropped.
closeOnWriteError_IgnoresFailure(w, c) == [st |-> w.st, action |-> Continue]

\* if writeErr != nil { c.close(); return xev.Stop }; return xev.Continue
\* on the result w of writeAll: [st, action].
closeOnWriteError(w, c) ==
    IF ~w.ok THEN [st |-> close(w.st, c), action |-> Stop]
    ELSE [st |-> w.st, action |-> Continue]

\* writeSyncResponse's payload, given enc = Encode(v).
syncPayload(enc) ==
    IF enc.err # "" THEN Encode(redisError("ERR internal encode error")).bytes
    ELSE enc.bytes

\* clientConn.writeSyncResponse: [st, action].
writeSyncResponse(st, c, v, wok) ==
    closeOnWriteError(writeAll(st, c, syncPayload(Encode(v)), wok), c)

\* Mutant of writeReplies: an Error among the replies closes the connection.
writeReplies_ErrorCloses(st, c, r, wok) ==
    LET w == writeAll([st EXCEPT !.kv = r.kv], c, r.dst, wok)
    IN IF \E i \in 1..Len(r.dst) : r.dst[i] = "-"
       THEN [st |-> close(w.st, c), action |-> Stop]
       ELSE closeOnWriteError(w, c)

\* onRead, lines 188-192: the replies r = [dst, kv] of the executed frames
\* are written at once.
writeReplies(st, c, r, wok) ==
    closeOnWriteError(writeAll([st EXCEPT !.kv = r.kv], c, r.dst, wok), c)

\* Mutant of onReadFrames: a frame that is no Array closes the connection
\* once the replies are written.
onReadFrames_NonArrayCloses(st, c, frames, wok) ==
    LET r == writeReplies(st, c, appendResponses(st.kv, <<>>, frames), wok)
    IN IF \E i \in 1..Len(frames) : frames[i].kind # KindArray
       THEN [st |-> close(r.st, c), action |-> Stop]
       ELSE r

\* onRead once Feed returned frames.
onReadFrames(st, c, frames, wok) ==
    writeReplies(st, c, appendResponses(st.kv, <<>>, frames), wok)

\* The return of onRead that produced r.
Took(r, branch) == [st |-> r.st, action |-> r.action, took |-> branch]

\* onRead from the result fed of c.parser.Feed(data) on.
onReadFed(st, c, fed, wok) ==
    LET kept == [st EXCEPT !.conns[c].parser = fed.p]
    IN IF fed.err # ""
       THEN Took(writeSyncResponse(kept, c, redisError("ERR Protocol error: " \o fed.err),
                                   wok), "decode_error")
       ELSE IF Len(fed.out) = 0
       THEN [st |-> kept, action |-> Continue, took |-> "incomplete"]
       ELSE Took(onReadFrames(kept, c, fed.out, wok), "frames")

\* Mutant of onRead: one decoder serves every connection (the parser of
\* slot 1 is fed, whichever connection the bytes came from).
onRead_ServerWideParser(st, c, data, err, wok) ==
    IF st.conns[c].closed THEN [st |-> st, action |-> Stop, took |-> "closed"]
    ELSE IF err THEN [st |-> close(st, c), action |-> Stop, took |-> "read_error"]
    ELSE IF Len(data) = 0 THEN [st |-> close(st, c), action |-> Stop, took |-> "eof"]
    ELSE LET r == onReadFed(st, 1, Feed(st.conns[1].parser, data), wok)
         IN [r EXCEPT !.st.conns[c].wire = @ \o SubSeq(r.st.conns[1].wire,
                                                       Len(st.conns[1].wire) + 1,
                                                       Len(r.st.conns[1].wire)),
                      !.st.conns[1].wire = st.conns[1].wire]

\* Mutant of onRead: the closed flag is not looked at.
onRead_IgnoresClosed(st, c, data, err, wok) ==
    IF err THEN [st |-> close(st, c), action |-> Stop, took |-> "read_error"]
    ELSE IF Len(data) = 0 THEN [st |-> close(st, c), action |-> Stop, took |-> "eof"]
    ELSE onReadFed(st, c, Feed(st.conns[c].parser, data), wok)

\* clientConn.onRead: [st, action, took].  err is whether the completion
\* carries an error.
onRead(st, c, data, err, wok) ==
    IF st.conns[c].closed THEN [st |-> st, action |-> Stop, took |-> "closed"]
    ELSE IF err THEN [st |-> close(st, c), action |-> Stop, took |-> "read_error"]
    ELSE IF Len(data) = 0 THEN [st |-> close(st, c), action |-> Stop, took |-> "eof"]
    ELSE onReadFed(st, c, Feed(st.conns[c].parser, data), wok)

\* TCPConn.Read fails only on an empty buffer.
ReadFuncFails == ReadBufferSize = 0

\* onAccept, lines 132-135, on the state st that has the new connection c
\* registered: if conn.ReadFunc fails { client.close() }; return Continue.
armFirstRead(st, c, readErr) ==
    IF readErr THEN [st |-> close(st, c), armed |-> FALSE, action |-> Continue]
    ELSE [st |-> st, armed |-> TRUE, action |-> Continue]

\* Mutant of onAccept: an accept error stops accepting.
onAccept_StopsOnError(st, c, err) ==
    LET client == [NoConn EXCEPT !.fd = "open"]
        reg == [st EXCEPT !.conns[c] = client, !.server.clients = @ \cup {c}]
    IN IF err THEN [st |-> st, armed |-> FALSE, action |-> Stop]
       ELSE armFirstRead(reg, c, ReadFuncFails)

\* Server.onAccept with a new connection in slot c: [st, armed, action].
onAccept(st, c, err) ==
    LET client == [NoConn EXCEPT !.fd = "open"]
        reg == [st EXCEPT !.conns[c] = client, !.server.clients = @ \cup {c}]
    IN IF err THEN [st |-> st, armed |-> FALSE, action |-> Continue]
       ELSE armFirstRead(reg, c, ReadFuncFails)

\* Mutant of ShutdownAll: the loop over the copied connections is left out.
ShutdownAll_SkipsConnections(st, cs) == st

\* shutdownInLoop, lines 101-103: shutdown() on every connection of the slice.
RECURSIVE ShutdownAll(_, _)
ShutdownAll(st, cs) ==
    IF cs = {} THEN st
    ELSE LET c == CHOOSE x \in cs : \A y \in cs : x <= y
         IN ShutdownAll(shutdown(st, c), cs \ {c})

\* Mutant of PollsRemain: the drain loop makes one pass more.
PollsRemain_OneMore(i) == i <= ShutdownPolls

\* The drain loop's condition, i < 32.
PollsRemain(i) == i < ShutdownPolls

\* ------------------------------------------------------------------- state
\* The parser under test.
VARIABLES
    parser,     \* the Parser (buf and limits)
    whole,      \* every byte this run feeds, in order
    rest,       \* the suffix of whole not yet fed
    decoded,    \* concatenation of the frames the Feed calls returned
    feedErrs,   \* the errors the Feed calls returned, in order
    sent,       \* <<v>> when whole is Encode(v), <<>> for raw bytes
    feedCalls   \* Feed calls made so far, counted up to FeedCallsCap

parserVars == <<parser, whole, rest, decoded, feedErrs, sent, feedCalls>>

\* The store under test and its concurrent callers.
VARIABLES
    kv,         \* Store.kv
    mu,         \* Store.mu
    callPc,     \* per caller: where it is in Incr or Get
    callRaw,    \* per caller: the map entry it read (raw, ok)
    callRet     \* per caller: what its call returned

storeVars == <<kv, mu, callPc, callRaw, callRet>>

\* The server: kv above is its Store's map.
VARIABLES
    server,     \* the Server record
    conns,      \* per slot: the clientConn and its descriptor
    run,        \* Server.run: [pc, i, clients] -- position, drain pass, slice
    closePc,    \* per caller of Server.Close: where it is
    reads       \* read completions that carried data so far

serverVars == <<server, conns, run, closePc, reads>>

\* Commands executed one after another, and one call of Encode.
VARIABLES
    executed,   \* per executed frame: the frame, its reply, the store after it
    enc         \* Encode's argument and, once it returned, its result

\* What the read completions of each slot carried, in order, where the
\* bytes arrive in pieces (ReadChunk).
VARIABLES received

pureVars == <<executed, enc, received>>

\* ------------------------------------------------- parser under test
\* One Parser is fed the bytes of `whole` chunk by chunk, as a connection's
\* read completions or a test's successive Feed calls do.

SeqsUpTo(S, n) == UNION {[1..k -> S] : k \in 0..n}

RECURSIVE Flatten(_)
Flatten(ss) == IF ss = <<>> THEN <<>> ELSE Head(ss) \o Flatten(Tail(ss))

\* Bytes of raw inputs: every prefix byte, a sign, digits, CR, LF and a byte
\* that is neither.
Alphabet == {"+", "-", ":", "$", "*", "0", "1", CR, LF, "a"}

RawInputs == SeqsUpTo(Alphabet, MaxRawLen)

\* Well-formed, truncated and malformed frames.
FrameSet ==
    { <<"+", "a">> \o CRLF,
      <<":", "1", "a">> \o CRLF,
      <<"$", "2">> \o CRLF \o CRLF \o CRLF,
      <<"$", "-", "1">> \o CRLF,
      <<"$", "1">> \o CRLF \o <<"a", "a", "a">>,
      <<"*", "1">> \o CRLF \o <<":", "1">> \o CRLF,
      <<"*", "2">> \o CRLF \o <<"+">> \o CRLF,
      <<"*", "-", "1">> \o CRLF,
      <<"$", "-", "2">> \o CRLF }

FrameInputs == {Flatten(fs) : fs \in SeqsUpTo(FrameSet, MaxFrames)}

\* Value trees for the round trip: inline strings without CR or LF.
LeafValues ==
    { SimpleString(<<"O", "K">>), Integer(7),
      BulkString(<<>>), BulkString(CRLF), BulkAbsent }

\* Values placed inside nested arrays.
NestedLeafValues == {BulkString(CRLF), Integer(IntMin), BulkAbsent}

ArraysOver(S) == {Array(a) : a \in SeqsUpTo(S, MaxArrayElems)}

RoundTripValues ==
    LeafValues \cup ArraysOver(LeafValues)
    \cup {Array(<<x>>) : x \in ArraysOver(NestedLeafValues)}
    \cup {Array(<<Null, x>>) : x \in ArraysOver({Integer(0)})}
    \cup {SimpleString(<<>>), Error(<<"E">>), Integer(-12), Integer(IntMax),
          BulkString(<<"a">>), Null}

\* The limits are fields of Parser.  NewParser sets the defaults; the small
\* configuration runs the same comparisons at sizes the inputs can exceed.
SmallMaxBulkLen == 1
SmallMaxArrayLen == 1
SmallMaxDepth == 1

SmallParser ==
    [buf |-> <<>>, maxBulkLen |-> SmallMaxBulkLen,
     maxArrayLen |-> SmallMaxArrayLen, maxDepth |-> SmallMaxDepth]

ParserConfigs == {NewParser, SmallParser}

\* One Feed call with the next n bytes of the input.
FeedChunk ==
    \E n \in 0..Len(rest) :
        LET r == Feed(parser, SubSeq(rest, 1, n))
        IN /\ parser' = r.p
           /\ rest' = SubSeq(rest, n + 1, Len(rest))
           /\ decoded' = decoded \o r.out
           /\ feedErrs' = IF r.err = "" THEN feedErrs ELSE Append(feedErrs, r.err)
           /\ feedCalls' = IF feedCalls < FeedCallsCap THEN feedCalls + 1 ELSE feedCalls
           /\ UNCHANGED <<whole, sent, storeVars, serverVars, pureVars>>

\* ------------------------------------------------- store under test
\* Concurrent callers of one Store: each of IncrCallers calls Incr(SharedKey)
\* once, each of GetCallers calls Get(SharedKey) once.
NumIncrCallers == 3
NumGetCallers == 2

IncrCallers == 1..NumIncrCallers
GetCallers == (NumIncrCallers + 1)..(NumIncrCallers + NumGetCallers)
SharedKey == <<"k">>


NoRaw == [v |-> <<>>, ok |-> FALSE]
NoRet == [v |-> <<>>, ok |-> FALSE, n |-> 0, err |-> ""]

InitStore ==
    /\ kv = NewStore
    /\ mu = NewRWMutex
    /\ callPc = [c \in IncrCallers \cup GetCallers |-> "call"]
    /\ callRaw = [c \in IncrCallers \cup GetCallers |-> NoRaw]
    /\ callRet = [c \in IncrCallers \cup GetCallers |-> NoRet]

\* s.mu.Lock()
IncrLock(c) ==
    /\ callPc[c] = "call" /\ CanLock(mu)
    /\ mu' = [mu EXCEPT !.writer = c]
    /\ callPc' = [callPc EXCEPT ![c] = "locked"]
    /\ UNCHANGED <<kv, callRaw, callRet>>

\* raw, ok := s.kv[key]
IncrLoad(c) ==
    /\ callPc[c] = "locked"
    /\ callRaw' = [callRaw EXCEPT ![c] = StoreGet(kv, SharedKey)]
    /\ callPc' = [callPc EXCEPT ![c] = "loaded"]
    /\ UNCHANGED <<kv, mu, callRet>>

\* parse, n++, s.kv[key] = ...
IncrStore(c) ==
    /\ callPc[c] = "loaded"
    /\ LET r == IncrOf(callRaw[c])
       IN /\ kv' = IF r.store THEN MapPut(kv, SharedKey, r.value) ELSE kv
          /\ callRet' = [callRet EXCEPT ![c] = [NoRet EXCEPT !.n = r.n, !.err = r.err]]
    /\ callPc' = [callPc EXCEPT ![c] = "stored"]
    /\ UNCHANGED <<mu, callRaw>>

\* the deferred s.mu.Unlock(), and the return
IncrUnlock(c) ==
    /\ callPc[c] = "stored"
    /\ mu' = [mu EXCEPT !.writer = IF mu.writer = c THEN 0 ELSE mu.writer]
    /\ callPc' = [callPc EXCEPT ![c] = "done"]
    /\ UNCHANGED <<kv, callRaw, callRet>>

\* s.mu.RLock()
GetRLock(c) ==
    /\ callPc[c] = "call" /\ CanRLock(mu)
    /\ mu' = [mu EXCEPT !.readers = @ \cup {c}]
    /\ callPc' = [callPc EXCEPT ![c] = "rlocked"]
    /\ UNCHANGED <<kv, callRaw, callRet>>

\* v, ok := s.kv[key]
GetLoad(c) ==
    /\ callPc[c] = "rlocked"
    /\ callRaw' = [callRaw EXCEPT ![c] = StoreGet(kv, SharedKey)]
    /\ callPc' = [callPc EXCEPT ![c] = "loaded"]
    /\ UNCHANGED <<kv, mu, callRet>>

\* s.mu.RUnlock(); return v, ok
GetRUnlock(c) ==
    /\ callPc[c] = "loaded"
    /\ mu' = [mu EXCEPT !.readers = @ \ {c}]
    /\ callRet' = [callRet EXCEPT ![c] = [NoRet EXCEPT !.v = callRaw[c].v, !.ok = callRaw[c].ok]]
    /\ callPc' = [callPc EXCEPT ![c] = "done"]
    /\ UNCHANGED <<kv, callRaw>>

\* ----------------------------------------------- commands under test
\* onRead's loop body, one frame at a time, against the store: the frames
\* are values Feed can return.
MaxCommands == 3

\* A client's command as Feed returns it: an array of bulk strings.
CmdFrame(parts) == Array([i \in 1..Len(parts) |-> BulkString(parts[i])])

MaxDispatch == 2

\* The commands of the protocol-error test (PING a b, NOEXIST) and more: PING
\* and ECHO with every argument count, names in mixed case, an unknown name,
\* the store commands with a wrong argument count, and a SET that fills the
\* store.
DispatchFrames ==
    { CmdFrame(<<<<"S", "E", "T">>, <<"k">>, <<"a">>>>),
      CmdFrame(<<<<"P", "I", "N", "G">>>>),
      CmdFrame(<<<<"p", "I", "n", "G">>, <<"h", "i">>>>),
      CmdFrame(<<<<"P", "I", "N", "G">>, <<"a">>, <<"b">>>>),
      CmdFrame(<<<<"e", "C", "h", "O">>, <<"h", "i">>>>),
      CmdFrame(<<<<"E", "C", "H", "O">>>>),
      CmdFrame(<<<<"N", "o", "E", "x", "i", "s", "t">>>>),
      CmdFrame(<<<<"S", "E", "T">>, <<"k">>>>),
      CmdFrame(<<<<"g", "e", "t">>>>),
      CmdFrame(<<<<"D", "E", "L">>>>),
      CmdFrame(<<<<"I", "N", "C", "R">>, <<"k">>, <<"k">>>>),
      CmdFrame(<<<<"I", "N", "C", "R">>, <<"k">>>>),
      CmdFrame(<<<<"S", "E", "T">>, <<"k">>, <<"-", "1">>>>),
      CmdFrame(<<<<"S", "E", "T">>, <<"k">>, <<"+", "0", "7">>>>),
      CmdFrame(<<<<"S", "E", "T">>, <<"k">>, FormatInt(IntMax)>>) }

\* Commands on the keys k and j, with values that are no integer (a, the
\* empty value, the digits of IntMax + 1), and frames that are not commands: a frame
\* that is no array, an empty array, arrays with an element that is no
\* token (first, as an argument, with a wrong argument count), and a
\* command name with CR LF inside.
CommandFrames ==
    { CmdFrame(<<<<"S", "E", "T">>, <<"k">>, <<"a">>>>),
      CmdFrame(<<<<"s", "e", "t">>, <<"k">>, <<"9">>>>),
      CmdFrame(<<<<"S", "E", "T">>, <<"j">>, <<>>>>),
      Array(<<SimpleString(<<"g", "e", "t">>), BulkString(<<"k">>)>>),
      CmdFrame(<<<<"G", "E", "T">>, <<"j">>>>),
      CmdFrame(<<<<"D", "E", "L">>, <<"k">>>>),
      CmdFrame(<<<<"D", "E", "L">>, <<"k">>, <<"k">>>>),
      CmdFrame(<<<<"D", "E", "L">>, <<"j">>, <<"k">>>>),
      CmdFrame(<<<<"I", "N", "C", "R">>, <<"k">>>>),
      CmdFrame(<<<<"I", "N", "C", "R">>, <<"j">>>>),
      CmdFrame(<<<<"S", "E", "T">>, <<"k">>, FormatInt(IntMax + 1)>>),
      SimpleString(<<"H", "E", "L", "L", "O">>),
      Array(<<>>),
      Array(<<Integer(1)>>),
      Array(<<BulkString(<<"S", "E", "T">>), BulkString(<<"k">>), Null>>),
      Array(<<BulkString(<<"D", "E", "L">>), BulkString(<<"k">>), Integer(1)>>),
      Array(<<BulkString(<<"P", "I", "N", "G">>), Integer(1), Integer(2)>>),
      Array(<<BulkString(<<"N", "O">>), Integer(1)>>),
      CmdFrame(<<<<"X", CR, LF, "Y">>>>) }

\* One pass of the loop: wire = c.appendResponse(wire, frame).
Execute ==
    /\ Len(executed) < MaxCommands
    /\ \E f \in CommandFrames :
          LET r == appendResponse(kv, <<>>, f)
          IN /\ kv' = r.kv
             /\ executed' = Append(executed, [frame |-> f, reply |-> r.dst, kv |-> r.kv])
    /\ UNCHANGED <<parserVars, mu, callPc, callRaw, callRet, serverVars, enc, received>>

\* One pass of the loop over a frame of DispatchFrames.
Dispatch ==
    /\ Len(executed) < MaxDispatch
    /\ \E f \in DispatchFrames :
          LET r == appendResponse(kv, <<>>, f)
          IN /\ kv' = r.kv
             /\ executed' = Append(executed, [frame |-> f, reply |-> r.dst, kv |-> r.kv])
    /\ UNCHANGED <<parserVars, mu, callPc, callRaw, callRet, serverVars, enc, received>>

\* ------------------------------------------------ encoder under test
\* Encode has not been called.
NoEncode == [v |-> Null, done |-> FALSE, bytes |-> <<>>, err |-> ""]

\* Values with CR or LF in an inline string, at the top and inside arrays,
\* first and last among the children, and arrays without any.
InlineNewlineValues ==
    { SimpleString(<<"b", "a", "d", CR, LF, "v">>),
      SimpleString(<<LF>>),
      Error(<<"E", CR>>),
      Array(<<Integer(7), SimpleString(<<LF, "a">>)>>),
      Array(<<Error(<<CR>>), Integer(7)>>),
      Array(<<Array(<<BulkString(CRLF), Error(<<"E", LF>>)>>)>>),
      Array(<<BulkString(CRLF), SimpleString(<<"O", "K">>)>>),
      Array(<<Array(<<Error(<<"E">>)>>), Null>>) }

EncodeValues == RoundTripValues \cup InlineNewlineValues

\* wire, err := Encode(v)
EncodeValue ==
    /\ ~enc.done
    /\ enc' = [enc EXCEPT !.done = TRUE,
                          !.bytes = Encode(enc.v).bytes,
                          !.err = Encode(enc.v).err]
    /\ UNCHANGED <<parserVars, storeVars, serverVars, executed, received>>

\* ------------------------------------------------- server under test
\* Up to NumConns peers connect, the read completions carry data at most
\* MaxReads times in all, and NumClosers goroutines may each call Close.
NumConns == 2
MaxReads == 2
NumClosers == 2

Conns == 1..NumConns
Closers == 1..NumClosers

\* A client's command: an array of bulk strings.
Cmd(parts) == Encode(Array([i \in 1..Len(parts) |-> BulkString(parts[i])])).bytes

PingBytes == Cmd(<<<<"P", "I", "N", "G">>>>)

\* No RESP2 prefix byte: Feed rejects it.
MalformedBytes == <<"!", CR, LF>>

\* Four pipelined commands: GET without a key, an unknown command, SET k a
\* and INCR k on the value just stored.
CommandErrorsBytes ==
    Cmd(<<<<"g", "e", "t">>>>) \o Cmd(<<<<"N", "O">>>>)
    \o Cmd(<<<<"S", "E", "T">>, <<"k">>, <<"a">>>>)
    \o Cmd(<<<<"I", "N", "C", "R">>, <<"k">>>>)

\* A well-formed frame that is no command array.
HelloBytes == <<"+", "H", "E", "L", "L", "O">> \o CRLF

\* What one read completion may carry.
ReadInputs == {PingBytes, MalformedBytes, CommandErrorsBytes, HelloBytes}

InitServer ==
    /\ server = NewServer
    /\ conns = [c \in Conns |-> NoConn]
    /\ run = [pc |-> "check", i |-> 0, clients |-> {}]
    /\ closePc = [k \in Closers |-> "idle"]
    /\ reads = 0
    /\ received = [c \in Conns |-> <<>>]

State == [server |-> server, conns |-> conns, kv |-> kv]

Becomes(st) ==
    /\ server' = st.server
    /\ conns' = st.conns
    /\ kv' = st.kv

\* Loop.Poll is in progress: its callbacks run on the goroutine of run.
Polling == run.pc \in {"poll", "drain_poll"}

\* The completions the substrate may deliver for the read armed on slot c:
\* data, end of stream or an error from a live peer, and the same once the
\* descriptor is half-closed (bytes that had arrived before the half-close);
\* end of stream or an error once it is closed.
Completions(c) ==
    {[data |-> <<>>, err |-> FALSE], [data |-> <<>>, err |-> TRUE]}
    \cup (IF conns[c].fd \in {"open", "shut"} /\ reads < MaxReads
          THEN {[data |-> d, err |-> FALSE] : d \in ReadInputs}
          ELSE {})

\* The state after onAccept returned r: Continue re-arms the accept and Stop
\* disarms it.
Accepted(c, r) ==
    Becomes([r.st EXCEPT !.conns[c].armed = r.armed,
                         !.server.listener = IF r.action = Continue THEN @ ELSE "disarmed"])

\* TCPListener.acceptCallback: a peer connected, or accept failed.
OnAccept(c) ==
    /\ Polling
    /\ server.listener = "accepting"
    /\ conns[c].fd = "none"
    /\ \A d \in Conns : d < c => conns[d].fd # "none"
    /\ \E err \in BOOLEAN : Accepted(c, onAccept(State, c, err))
    /\ UNCHANGED <<run, closePc, reads, parserVars, mu, callPc, callRaw, callRet, pureVars>>

\* The state after onRead returned r: Continue re-arms the read and Stop
\* disarms it.
Completed(c, r) ==
    LET before == Len(conns[c].wire)
        after == r.st.conns[c].wire
    IN Becomes([r.st EXCEPT !.conns[c].armed = (r.action = Continue),
                            !.conns[c].last = r.took,
                            !.conns[c].lastWire = SubSeq(after, before + 1, Len(after))])

\* TCPConn.readCallback: the read armed on slot c completes.
OnRead(c) ==
    /\ Polling
    /\ conns[c].armed
    /\ \E in \in Completions(c), wok \in BOOLEAN :
          /\ Completed(c, onRead(State, c, in.data, in.err, wok))
          /\ reads' = IF in.data # <<>> /\ ~conns[c].closed THEN reads + 1 ELSE reads
    /\ UNCHANGED <<run, closePc, parserVars, mu, callPc, callRaw, callRet, pureVars>>

\* The bytes of a command arrive in two reads: PING cut inside its header
\* and inside its payload, and SET k a whole.
MaxChunks == 3
PingHeader == SubSeq(PingBytes, 1, 4)
PingBulk == SubSeq(PingBytes, 5, Len(PingBytes))
PingStart == SubSeq(PingBytes, 1, 10)
PingEnd == SubSeq(PingBytes, 11, Len(PingBytes))
SetBytes == Cmd(<<<<"S", "E", "T">>, <<"k">>, <<"a">>>>)
ChunkInputs == {PingHeader, PingBulk, PingStart, PingEnd, SetBytes}

\* The completions of the read armed on slot c, with the outcome of the
\* write that may follow.
ChunkCompletions(c) ==
    {[data |-> <<>>, err |-> e, wok |-> TRUE] : e \in BOOLEAN}
    \cup (IF conns[c].fd = "open" /\ reads < MaxChunks
          THEN {[data |-> d, err |-> FALSE, wok |-> w] : d \in ChunkInputs, w \in BOOLEAN}
          ELSE {})

\* TCPConn.readCallback with a piece of a command: the read armed on slot
\* c completes.
ReadChunk(c) ==
    /\ Polling
    /\ conns[c].armed
    /\ \E in \in ChunkCompletions(c) :
          /\ Completed(c, onRead(State, c, in.data, in.err, in.wok))
          /\ reads' = IF in.data # <<>> THEN reads + 1 ELSE reads
          /\ received' = [received EXCEPT ![c] = Append(@, in)]
    /\ UNCHANGED <<run, closePc, parserVars, mu, callPc, callRaw, callRet, executed, enc>>

\* Loop.Poll returns.  A pass processes the events that are immediately
\* ready, and a read armed on a half-closed descriptor is.
PollReturns ==
    /\ Polling
    /\ \A c \in Conns : ~(conns[c].armed /\ conns[c].fd = "shut")
    /\ run' = [run EXCEPT !.pc = IF run.pc = "poll" THEN "flush" ELSE "drain_flush"]
    /\ UNCHANGED <<server, conns, kv, closePc, reads, parserVars, mu, callPc, callRaw, callRet, pureVars>>

\* run: the select on stopCh.
RunCheck ==
    /\ run.pc = "check"
    /\ run' = [run EXCEPT !.pc = IF server.stopCh = "closed" THEN "shutdown" ELSE "poll"]
    /\ UNCHANGED <<server, conns, kv, closePc, reads, parserVars, mu, callPc, callRaw, callRet, pureVars>>

\* run: flushPendingFDs and the sleep that follow Poll.
RunFlush ==
    /\ run.pc = "flush"
    /\ Becomes(flushPendingFDs(State))
    /\ run' = [run EXCEPT !.pc = "check"]
    /\ UNCHANGED <<closePc, reads, parserVars, mu, callPc, callRaw, callRet, pureVars>>

\* shutdownInLoop up to its drain loop: the listener stops accepting, the
\* registry is copied and every connection of the copy is shut down.
ShutdownBegin ==
    /\ run.pc = "shutdown"
    /\ Becomes(ShutdownAll([State EXCEPT !.server.listener = "closed"], server.clients))
    /\ run' = [pc |-> IF PollsRemain(0) THEN "drain_poll" ELSE "force",
               i |-> 0, clients |-> server.clients]
    /\ UNCHANGED <<closePc, reads, parserVars, mu, callPc, callRaw, callRet, pureVars>>

\* shutdownInLoop: flushPendingFDs of one drain pass, then i++.
DrainFlush ==
    /\ run.pc = "drain_flush"
    /\ Becomes(flushPendingFDs(State))
    /\ run' = [run EXCEPT !.i = @ + 1,
                          !.pc = IF PollsRemain(run.i + 1) THEN "drain_poll" ELSE "force"]
    /\ UNCHANGED <<closePc, reads, parserVars, mu, callPc, callRaw, callRet, pureVars>>

\* shutdownInLoop after the drain loop: syscall.Close on every connection of
\* the copy, a last flushPendingFDs, loop.Close.
ForceClose ==
    /\ run.pc = "force"
    /\ LET forced == [c \in Conns |-> IF c \in run.clients
                                      THEN [conns[c] EXCEPT !.fd = SysClose(@)]
                                      ELSE conns[c]]
           st == flushPendingFDs([State EXCEPT !.conns = forced])
       IN Becomes([st EXCEPT !.server.loop = "closed"])
    /\ run' = [run EXCEPT !.pc = "return"]
    /\ UNCHANGED <<closePc, reads, parserVars, mu, callPc, callRaw, callRet, pureVars>>

\* run returns: the deferred close(s.doneCh).
RunReturn ==
    /\ run.pc = "return"
    /\ server' = [server EXCEPT !.doneCh = "closed"]
    /\ run' = [run EXCEPT !.pc = "done"]
    /\ UNCHANGED <<conns, kv, closePc, reads, parserVars, mu, callPc, callRaw, callRet, pureVars>>

\* Mutant of CloseCAS: stopped is set without being compared, and every
\* caller goes on to close the stop channel.
CloseCAS_NoCompare(k) ==
    /\ closePc[k] = "idle"
    /\ server' = [server EXCEPT !.stopped = TRUE]
    /\ closePc' = [closePc EXCEPT ![k] = "signal"]
    /\ UNCHANGED <<conns, kv, run, reads, parserVars, mu, callPc, callRaw, callRet, pureVars>>

\* Server.Close: s.stopped.CompareAndSwap(false, true); the caller that
\* loses returns nil at once.
CloseCAS(k) ==
    /\ closePc[k] = "idle"
    /\ server' = [server EXCEPT !.stopped = TRUE]
    /\ closePc' = [closePc EXCEPT ![k] = IF server.stopped THEN "returned" ELSE "signal"]
    /\ UNCHANGED <<conns, kv, run, reads, parserVars, mu, callPc, callRaw, callRet, pureVars>>

\* Server.Close: close(s.stopCh)
CloseSignal(k) ==
    /\ closePc[k] = "signal"
    /\ server' = [server EXCEPT !.stopCh = "closed"]
    /\ closePc' = [closePc EXCEPT ![k] = "wait"]
    /\ UNCHANGED <<conns, kv, run, reads, parserVars, mu, callPc, callRaw, callRet, pureVars>>

\* Server.Close: <-s.doneCh, then return nil.
CloseWait(k) ==
    /\ closePc[k] = "wait"
    /\ server.doneCh = "closed"
    /\ closePc' = [closePc EXCEPT ![k] = "returned"]
    /\ UNCHANGED <<server, conns, kv, run, reads, parserVars, mu, callPc, callRaw, callRet, pureVars>>

vars == <<parserVars, storeVars, serverVars, pureVars>>

InitParser(p, input, values) ==
    /\ InitStore
    /\ InitServer
    /\ executed = <<>>
    /\ parser = p
    /\ whole = input
    /\ rest = input
    /\ decoded = <<>>
    /\ feedErrs = <<>>
    /\ sent = values
    /\ feedCalls = 0

\* Feeding the encoding of one value.
InitRoundTrip ==
    \E v \in RoundTripValues, p \in ParserConfigs :
        InitParser(p, Encode(v).bytes, <<v>>) /\ enc = NoEncode

\* Feeding arbitrary bytes.
InitBytes ==
    \E b \in RawInputs \cup FrameInputs, p \in ParserConfigs :
        InitParser(p, b, <<>>) /\ enc = NoEncode

NextParser == FeedChunk

\* Nothing is fed.
InitParserIdle == InitParser(NewParser, <<>>, <<>>)

InitIdleParser == InitParserIdle /\ enc = NoEncode

NextStore ==
    \/ \E c \in IncrCallers :
          (IncrLock(c) \/ IncrLoad(c) \/ IncrStore(c) \/ IncrUnlock(c))
             /\ UNCHANGED <<parserVars, serverVars, pureVars>>
    \/ \E c \in GetCallers :
          (GetRLock(c) \/ GetLoad(c) \/ GetRUnlock(c))
             /\ UNCHANGED <<parserVars, serverVars, pureVars>>

NextCommands == Execute

\* Encoding one value.
InitEncode ==
    \E v \in EncodeValues :
        /\ InitParserIdle
        /\ enc = [NoEncode EXCEPT !.v = v]

NextEncode == EncodeValue

SpecEncode == InitEncode /\ [][NextEncode]_vars

SpecCommands == InitIdleParser /\ [][NextCommands]_vars

NextDispatch == Dispatch

SpecDispatch == InitIdleParser /\ [][NextDispatch]_vars

SpecRoundTrip == InitRoundTrip /\ [][NextParser]_vars
SpecBytes == InitBytes /\ [][NextParser]_vars
SpecStore == InitIdleParser /\ [][NextStore]_vars

\* The goroutine of run, callbacks of Poll included.
LoopThread ==
    \/ RunCheck
    \/ \E c \in Conns : OnAccept(c)
    \/ \E c \in Conns : OnRead(c)
    \/ PollReturns
    \/ RunFlush
    \/ ShutdownBegin
    \/ DrainFlush
    \/ ForceClose
    \/ RunReturn

NextServer ==
    \/ LoopThread
    \/ \E k \in Closers : CloseCAS(k)
    \/ \E k \in Closers : CloseSignal(k)
    \/ \E k \in Closers : CloseWait(k)

SpecServer == InitIdleParser /\ [][NextServer]_vars

\* The server is running and Close is not called; the bytes arrive in
\* pieces.
NextChunks ==
    \/ RunCheck
    \/ \E c \in Conns : OnAccept(c)
    \/ \E c \in Conns : ReadChunk(c)
    \/ PollReturns
    \/ RunFlush

SpecChunks == InitIdleParser /\ [][NextChunks]_vars

\* The goroutine of run keeps running, and a Close call past its
\* compare-and-swap runs on.
SpecServerFair ==
    /\ SpecServer
    /\ WF_vars(LoopThread)
    /\ \A k \in Closers : WF_vars(CloseSignal(k) \/ CloseWait(k))

\* ------------------------------------------------------- parser claims
\* v, at `depth` enclosing arrays, and everything below it stay inside the
\* limits of p.
RECURSIVE WithinLimits(_, _, _)
WithinLimits(p, v, depth) ==
    /\ depth <= p.maxDepth
    /\ v.kind = KindBulkString => Len(v.bulk) <= p.maxBulkLen
    /\ v.kind = KindArray =>
         /\ Len(v.array) <= p.maxArrayLen
         /\ \A i \in 1..Len(v.array) : WithinLimits(p, v.array[i], depth + 1)

\* No BulkString of v, at any level, has an absent (nil) payload.
RECURSIVE NoAbsentBulk(_)
NoAbsentBulk(v) ==
    /\ v.kind = KindBulkString => ~v.bulkNil
    /\ v.kind = KindArray => \A i \in 1..Len(v.array) : NoAbsentBulk(v.array[i])

DefaultLimits == [parser EXCEPT !.buf = <<>>] = NewParser

\* C1 as stated: for every Value tree without CR/LF in its inline strings,
\* once all bytes of Encode(v) have been fed to a fresh Parser, in any
\* chunks, the Feed calls returned exactly [v] and no error.
C1_RoundTripEveryValue ==
    (sent # <<>> /\ DefaultLimits /\ rest = <<>>)
        => (decoded = sent /\ feedErrs = <<>>)

\* C1 amended: the round trip holds for every Value tree that stays inside
\* the parser's limits (nesting, array length, bulk length) and whose
\* BulkStrings all have a present payload: no Feed call returns an error,
\* and once all bytes are fed, in any chunks, the calls returned exactly [v].
C1_RoundTripWithinLimits ==
    (sent # <<>> /\ WithinLimits(parser, sent[1], 0) /\ NoAbsentBulk(sent[1]))
        => /\ feedErrs = <<>>
           /\ rest = <<>> => decoded = sent

\* A nested array holding a bulk string with CR LF in it has been fed in
\* more than one call and came back whole.
C1_Witness ==
    /\ sent # <<>> /\ rest = <<>> /\ feedCalls >= 2
    /\ DefaultLimits
    /\ sent[1].kind = KindArray /\ Len(sent[1].array) = 1
    /\ sent[1].array[1] = Array(<<BulkString(CRLF), Integer(IntMin)>>)
    /\ decoded = sent /\ feedErrs = <<>>

\* The result of one Feed of all the bytes to a fresh parser with the same
\* limits.
OneShot == Feed([parser EXCEPT !.buf = <<>>], whole)

\* C2 as stated: for every byte sequence and every split into chunks, the
\* chunked Feed calls return, concatenated, what a single Feed of the whole
\* sequence returns.
C2_ChunkedEqualsWholeEveryInput ==
    (sent = <<>> /\ DefaultLimits /\ rest = <<>>) => decoded = OneShot.out

\* C2 amended: for every byte sequence that a single Feed decodes without
\* error, and every split into chunks, the chunked Feed calls return no
\* error and, concatenated, the same frames as the single Feed, and leave
\* the same bytes buffered.
C2_ChunkedEqualsWholeWithoutError ==
    (sent = <<>> /\ OneShot.err = "")
        => /\ feedErrs = <<>>
           /\ rest = <<>> => (decoded = OneShot.out /\ parser.buf = OneShot.p.buf)

\* Bytes holding a complete frame and an incomplete one have been fed in
\* more than one call.
C2_Witness ==
    /\ sent = <<>> /\ rest = <<>> /\ feedCalls >= 2
    /\ DefaultLimits
    /\ Len(decoded) >= 1 /\ parser.buf # <<>> /\ feedErrs = <<>>
    /\ decoded = OneShot.out

\* The bytes of the header line of a frame at the start of b, CR LF
\* excluded; the line is there once IndexCRLF(b, 1) >= 0.
HeaderLine(b) == SubSeq(b, 2, IndexCRLF(b, 1))

\* The decode error due for a buffer b whose first frame is malformed in its
\* first byte or its header line, "" when it is not.
MalformedHeadError(b) ==
    IF b = <<>> THEN ""
    ELSE IF b[1] \notin {"+", "-", ":", "$", "*"} THEN "unknown RESP2 prefix byte"
    ELSE IF b[1] \in {"+", "-"} \/ IndexCRLF(b, 1) < 0 THEN ""
    ELSE LET n == ParseInt(HeaderLine(b))
         IN CASE b[1] = ":" -> IF ~n.ok THEN "invalid integer" ELSE ""
              [] b[1] = "$" -> IF ~n.ok THEN "invalid bulk string length"
                               ELSE IF n.n < -1 THEN "negative bulk string length"
                               ELSE ""
              [] b[1] = "*" -> IF ~n.ok THEN "invalid array length"
                               ELSE IF n.n < 0 THEN "negative array length"
                               ELSE ""

\* C18: a Feed call whose buffer starts with a byte other than + - : $ *,
\* with an integer line that is no base-10 signed integer, with a bulk
\* length that is no decimal number or is below -1, or with an array count
\* that is no decimal number or is negative, returns the matching error
\* (its text begins 'unknown', 'invalid' or 'negative') and no values, and
\* drops the buffer.
C18_MalformedIsDecodeError ==
    [][LET b == parser.buf \o SubSeq(rest, 1, Len(rest) - Len(rest'))
       IN MalformedHeadError(b) # "" =>
             /\ feedErrs' = Append(feedErrs, MalformedHeadError(b))
             /\ decoded' = decoded
             /\ parser'.buf = <<>>]_vars

\* A negative array count, fed in two calls, was rejected by the second.
C18_Witness ==
    /\ sent = <<>> /\ rest = <<>> /\ feedCalls >= 2
    /\ whole = <<"*", "-", "1">> \o CRLF
    /\ feedErrs = <<"negative array length">>
    /\ decoded = <<>> /\ parser.buf = <<>>

\* The bytes fed so far.
FedLen == Len(whole) - Len(rest)

\* C19: when the input starts with a bulk header $n, 0 <= n <= the limit:
\* as long as fewer than n+2 bytes behind the header have been fed, the Feed
\* calls returned no value and no error and the parser keeps every byte;
\* once n+2 bytes are there, Feed returned BulkString(the n bytes) when the
\* last two are CR LF and the 'missing CRLF terminator' error when not.
C19_TruncatedBulkIsIncomplete ==
    LET n == ParseInt(HeaderLine(whole))
        next == IndexCRLF(whole, 1) + 2
        need == next + n.n + 2
        payload == SubSeq(whole, next + 1, next + n.n)
    IN (/\ sent = <<>> /\ whole # <<>> /\ whole[1] = "$"
        /\ IndexCRLF(whole, 1) >= 0
        /\ n.ok /\ n.n >= 0 /\ n.n <= parser.maxBulkLen) =>
           IF FedLen < need
           THEN decoded = <<>> /\ feedErrs = <<>> /\ parser.buf = SubSeq(whole, 1, FedLen)
           ELSE IF whole[need - 1] = CR /\ whole[need] = LF
           THEN /\ feedErrs = <<>> => (decoded # <<>> /\ decoded[1] = BulkString(payload))
                /\ FedLen = need =>
                      decoded = <<BulkString(payload)>> /\ feedErrs = <<>> /\ parser.buf = <<>>
           ELSE /\ feedErrs # <<>> /\ feedErrs[1] = "bulk string missing CRLF terminator"
                /\ FedLen = need => decoded = <<>> /\ parser.buf = <<>>

\* A bulk string whose payload is CR LF arrived in more than one call and
\* was returned whole once its terminator was there.
C19_Witness ==
    /\ sent = <<>> /\ rest = <<>> /\ feedCalls >= 2
    /\ DefaultLimits
    /\ whole = <<"$", "2">> \o CRLF \o CRLF \o CRLF
    /\ decoded = <<BulkString(CRLF)>> /\ feedErrs = <<>> /\ parser.buf = <<>>

\* A payload that is complete but not followed by CR LF was rejected.
C19_WitnessMissingTerminator ==
    /\ sent = <<>> /\ feedCalls >= 2
    /\ whole = <<"$", "1">> \o CRLF \o <<"a", "a", "a">>
    /\ FedLen = 7
    /\ feedErrs = <<"bulk string missing CRLF terminator">> /\ decoded = <<>>

\* C29: a Feed call that meets a malformed frame returns the error and no
\* values, also when complete well-formed frames stand before the
\* malformed one in the buffer, and leaves the buffer empty (the limits of
\* the parser are kept), so the next call decodes its own bytes only.
C29_DecodeErrorDropsEverything ==
    [][feedErrs' # feedErrs =>
          /\ Len(feedErrs') = Len(feedErrs) + 1
          /\ decoded' = decoded
          /\ parser' = [parser EXCEPT !.buf = <<>>]]_vars

\* One call was fed +a and, behind it, an integer line that is no integer:
\* it returned the error and not the SimpleString, and nothing is buffered.
C29_Witness ==
    /\ sent = <<>> /\ rest = <<>> /\ feedCalls = 1
    /\ whole = <<"+", "a">> \o CRLF \o <<":", "1", "a">> \o CRLF
    /\ feedErrs = <<"invalid integer">>
    /\ decoded = <<>> /\ parser.buf = <<>>

\* The call after a decode error decoded the frame it was fed.
C29_WitnessNextFeed ==
    /\ sent = <<>> /\ rest = <<>> /\ feedCalls = 2
    /\ whole = <<":", "1", "a">> \o CRLF \o <<"+", "a">> \o CRLF
    /\ feedErrs = <<"invalid integer">>
    /\ decoded = <<SimpleString(<<"a">>)>> /\ parser.buf = <<>>

\* C30: for an array inside the parser's limits fed from its '*' byte on:
\* as long as a byte of it is missing -- the header line, a child or part
\* of a child -- the Feed calls returned no value and no error and the
\* parser holds every byte fed; the call that supplies the last byte returns
\* the array, once, with all its children in order, and empties the buffer.
C30_IncompleteChildKeepsArray ==
    (/\ sent # <<>> /\ sent[1].kind = KindArray
     /\ WithinLimits(parser, sent[1], 0) /\ NoAbsentBulk(sent[1])) =>
        /\ feedErrs = <<>>
        /\ IF FedLen < Len(whole)
           THEN decoded = <<>> /\ parser.buf = SubSeq(whole, 1, FedLen)
           ELSE decoded = <<sent[1]>> /\ parser.buf = <<>>

\* The header of a two-element array, its first child and the header of
\* its second child have been fed: nothing was returned and the twelve
\* bytes are buffered.
C30_Witness ==
    /\ sent = <<Array(<<Integer(7), BulkString(CRLF)>>)>>
    /\ DefaultLimits
    /\ FedLen = 12 /\ rest = CRLF \o CRLF
    /\ decoded = <<>> /\ feedErrs = <<>>
    /\ parser.buf = <<"*", "2", CR, LF, ":", "7", CR, LF, "$", "2", CR, LF>>

\* The missing bytes of that array arrived in a later call, which returned
\* the array with both children.
C30_WitnessCompleted ==
    /\ sent = <<Array(<<Integer(7), BulkString(CRLF)>>)>>
    /\ DefaultLimits
    /\ rest = <<>> /\ feedCalls >= 2
    /\ decoded = sent /\ feedErrs = <<>> /\ parser.buf = <<>>

\* The length of the header line of the input, CR LF included, once the
\* line is there.
HeaderLen == IndexCRLF(whole, 1) + 2

\* The error due for the encoded value v when its length is over the
\* parser's limit, "" when it is not.
OverLimitError(v) ==
    IF v.kind = KindBulkString /\ Len(v.bulk) > parser.maxBulkLen
    THEN "bulk string length exceeds limit"
    ELSE IF v.kind = KindArray /\ Len(v.array) > parser.maxArrayLen
    THEN "array length exceeds limit"
    ELSE ""

\* v is a bulk string or an array whose length is the parser's limit.
AtLimit(v) ==
    \/ v.kind = KindBulkString /\ ~v.bulkNil /\ Len(v.bulk) = parser.maxBulkLen
    \/ v.kind = KindArray /\ Len(v.array) = parser.maxArrayLen

\* C31: a bulk header whose length is over the max bulk length, and an
\* array header whose count is over the max array length, make Feed return
\* the limit error in the very call that completes the header line, with
\* nothing returned and nothing kept in the buffer, whatever of the payload
\* or the children has arrived; no call before that one returns an error.
\* A length equal to the limit is accepted: no call returns an error and
\* the value is returned once its bytes are there.
C31_LimitsOnHeaderAlone ==
    [][sent # <<>> =>
          /\ (OverLimitError(sent[1]) # "" /\ FedLen < HeaderLen) =>
                /\ feedErrs = <<>>
                /\ FedLen' < HeaderLen => (feedErrs' = <<>> /\ decoded' = <<>>)
                /\ FedLen' >= HeaderLen =>
                      /\ feedErrs' = <<OverLimitError(sent[1])>>
                      /\ decoded' = <<>>
                      /\ parser'.buf = <<>>
          /\ (AtLimit(sent[1]) /\ WithinLimits(parser, sent[1], 0)
                             /\ NoAbsentBulk(sent[1])) =>
                /\ feedErrs' = <<>>
                /\ rest' = <<>> => decoded' = sent]_vars

\* The four header bytes of a bulk string of two bytes were fed to a
\* parser whose max bulk length is one: the call returned the limit error
\* before any payload byte had arrived.
C31_Witness ==
    /\ sent = <<BulkString(CRLF)>>
    /\ parser.maxBulkLen = SmallMaxBulkLen
    /\ FedLen = HeaderLen /\ rest = CRLF \o CRLF
    /\ feedErrs = <<"bulk string length exceeds limit">>
    /\ decoded = <<>> /\ parser.buf = <<>>

\* A bulk string and an array whose lengths equal the limits of the parser
\* were returned.
C31_WitnessAtLimit ==
    /\ sent = <<Array(<<BulkString(<<>>)>>)>>
    /\ parser.maxArrayLen = SmallMaxArrayLen
    /\ rest = <<>> /\ decoded = sent /\ feedErrs = <<>>

\* A two-element array was refused by a parser whose max array length is
\* one when its header line arrived.
C31_WitnessArray ==
    /\ sent = <<Array(<<Integer(7), Integer(7)>>)>>
    /\ parser.maxArrayLen = SmallMaxArrayLen
    /\ FedLen = HeaderLen
    /\ feedErrs = <<"array length exceeds limit">>
    /\ decoded = <<>> /\ parser.buf = <<>>

NestingError == "array nesting exceeds max depth"

\* The length of the header line of an array of n elements, CR LF included.
ArrayHeaderLen(n) == 1 + Len(FormatInt(n)) + 2

\* In the encoding of v, a value enclosed by depth arrays: the offset of the
\* first byte of the first value enclosed by more than max arrays
\* (FirstDeep), and the offset behind the header line of the first
\* non-empty array enclosed by exactly max arrays (FirstAnnounced); -1 when
\* there is none.  announced selects the second.
RECURSIVE FirstAt(_, _, _, _)
RECURSIVE FirstAtItems(_, _, _, _, _)
FirstAtItems(items, depth, max, announced, off) ==
    IF items = <<>> THEN -1
    ELSE LET a == FirstAt(Head(items), depth, max, announced)
         IN IF a >= 0 THEN off + a
            ELSE FirstAtItems(Tail(items), depth, max, announced,
                              off + Len(Encode(Head(items)).bytes))

FirstAt(v, depth, max, announced) ==
    IF ~announced /\ depth > max THEN 0
    ELSE IF v.kind # KindArray THEN -1
    ELSE IF announced /\ depth = max /\ Len(v.array) >= 1
    THEN ArrayHeaderLen(Len(v.array))
    ELSE IF depth >= max /\ announced THEN -1
    ELSE FirstAtItems(v.array, depth + 1, max, announced, ArrayHeaderLen(Len(v.array)))

FirstDeep(v) == FirstAt(v, 0, parser.maxDepth, FALSE)

FirstAnnounced(v) == FirstAt(v, 0, parser.maxDepth, TRUE)

\* Every value of v enclosed by at most max arrays is inside the length
\* limits of the parser.
RECURSIVE ShallowWithinLimits(_, _)
ShallowWithinLimits(v, depth) ==
    \/ depth > parser.maxDepth
    \/ /\ v.kind = KindBulkString => Len(v.bulk) <= parser.maxBulkLen
       /\ v.kind = KindArray =>
            /\ Len(v.array) <= parser.maxArrayLen
            /\ \A i \in 1..Len(v.array) : ShallowWithinLimits(v.array[i], depth + 1)

\* C32 as stated: Feed returns the nesting error only when a byte of a
\* value enclosed by more than maxDepth arrays is in the buffer.
C32_NestingErrorOnlyForPresentValue ==
    (sent # <<>> /\ feedErrs # <<>> /\ feedErrs[1] = NestingError) =>
        (FirstDeep(sent[1]) >= 0 /\ FedLen > FirstDeep(sent[1]))

\* C32 amended: a frame none of whose values is enclosed by more than
\* maxDepth arrays is never rejected for depth.  For a frame that has such
\* a value (and is inside the length limits down to maxDepth), no call
\* returns an error before the header line of the first non-empty array
\* enclosed by exactly maxDepth arrays is complete, and the call that
\* completes that line returns the nesting error, nothing else, and empties
\* the buffer -- whether or not a byte of the array's first element has
\* arrived.
C32_NestingErrorWhenAnnounced ==
    [][sent # <<>> =>
          /\ (FirstDeep(sent[1]) < 0 /\ feedErrs' # <<>>) => feedErrs'[1] # NestingError
          /\ (FirstDeep(sent[1]) >= 0) <=> (FirstAnnounced(sent[1]) >= 0)
          /\ (/\ FirstAnnounced(sent[1]) >= 0
               /\ ShallowWithinLimits(sent[1], 0)
               /\ FedLen < FirstAnnounced(sent[1])) =>
                /\ feedErrs = <<>>
                /\ FedLen' < FirstAnnounced(sent[1]) => feedErrs' = <<>>
                /\ FedLen' >= FirstAnnounced(sent[1]) =>
                      /\ feedErrs' = <<NestingError>>
                      /\ decoded' = <<>>
                      /\ parser'.buf = <<>>]_vars

\* A parser with max depth one was fed the headers of an array and of the
\* array inside it, and no byte of the inner array's element: the call
\* returned the nesting error.
C32_Witness ==
    /\ sent = <<Array(<<Array(<<Integer(IntMin)>>)>>)>>
    /\ parser.maxDepth = SmallMaxDepth
    /\ FedLen = 8 /\ FedLen = FirstDeep(sent[1])
    /\ feedErrs = <<NestingError>>
    /\ decoded = <<>> /\ parser.buf = <<>>

\* An empty array inside an array -- no value enclosed by more than one
\* array -- was returned by the parser with max depth one.
C32_WitnessAccepted ==
    /\ sent = <<Array(<<Array(<<>>)>>)>>
    /\ parser.maxDepth = SmallMaxDepth
    /\ rest = <<>> /\ decoded = sent /\ feedErrs = <<>>

\* -------------------------------------------------------- store claims
Stored == {c \in IncrCallers : callPc[c] \in {"stored", "done"}}
Returned == {c \in IncrCallers : callPc[c] = "done"}

\* C3: N concurrent callers that each issue one Incr on the same key get
\* exactly 1..N, each once; the read-modify-write runs under one lock
\* acquisition, so the stored text always is the count of the increments
\* made, no two calls return the same value, and a Get reads the map only
\* while no Incr is between its read and its write.
C3_IncrAtomic ==
    /\ \A a, b \in Stored : a # b => callRet[a].n # callRet[b].n
    /\ \A c \in Stored : callRet[c].err = "" /\ callRet[c].n \in 1..NumIncrCallers
    /\ Returned = IncrCallers => {callRet[c].n : c \in IncrCallers} = 1..NumIncrCallers
    /\ IF Stored = {} THEN SharedKey \notin DOMAIN kv
       ELSE StoreGet(kv, SharedKey) = [v |-> FormatInt(Cardinality(Stored)), ok |-> TRUE]
    /\ \A g \in GetCallers : callPc[g] \in {"rlocked", "loaded"} =>
          \A c \in IncrCallers : callPc[c] \notin {"locked", "loaded", "stored"}
    /\ \A g \in GetCallers : callPc[g] = "done" /\ callRet[g].ok =>
          \E c \in Stored : callRet[g].v = FormatInt(callRet[c].n)

\* Every Incr has returned, and a Get that ran between two of them returned
\* the text "2".
C3_Witness ==
    /\ Returned = IncrCallers
    /\ {callRet[c].n : c \in IncrCallers} = 1..NumIncrCallers
    /\ \E g \in GetCallers :
          callPc[g] = "done" /\ callRet[g].ok /\ callRet[g].v = <<"2">>

\* ------------------------------------------------------- server claims
Range(s) == {s[i] : i \in 1..Len(s)}

\* Active: registered, not closed, descriptor open, read armed.
Active(c) ==
    /\ c \in server.clients
    /\ ~conns[c].closed
    /\ conns[c].fd = "open"
    /\ conns[c].armed

\* This step is a read completion that carried data to slot c.
DataCompletion(c) == reads' # reads /\ conns'[c] # conns[c]

\* The Error replies to a wrong-arity command, an unknown command and INCR
\* on a value that is not an integer.
CommandErrorTexts ==
    {"ERR wrong number of arguments for 'get' command",
     "ERR unknown command '",
     "ERR value is not an integer or out of range"}

HasCommandError(w) ==
    \E i \in 1..(Len(w) - 1) : w[i] = "-" /\ w[i + 1] \in CommandErrorTexts

\* Every one of the three command errors was answered in w.
HasEveryCommandError(w) ==
    \A t \in CommandErrorTexts : \E i \in 1..(Len(w) - 1) : w[i] = "-" /\ w[i + 1] = t

\* C4 (as stated): every call of Close that has returned, a call made while
\* another Close is in progress included, returned after run finished the
\* shutdown sequence and closed doneCh.
C4_CloseReturnsAfterShutdown ==
    \A k \in Closers : closePc[k] = "returned" => server.doneCh = "closed"

\* C5: the drain loop of the shutdown sequence makes at most ShutdownPolls
\* poll passes, and every Close call that won the compare-and-swap
\* eventually returns, whatever read completions interleave.
C5_ShutdownTerminates ==
    /\ [](run.i <= ShutdownPolls)
    /\ \A k \in Closers : (closePc[k] \in {"signal", "wait"}) ~> (closePc[k] = "returned")

\* Close returned after a shutdown that found connections with a read
\* outstanding, each of which completed during the drain passes.
C5_Witness ==
    /\ run.pc = "done"
    /\ run.i = ShutdownPolls
    /\ run.clients = Conns
    /\ \A c \in run.clients : conns[c].last = "closed"
    /\ \E k \in Closers : closePc[k] = "returned" /\ server.stopCh = "closed"

C7_DecodeErrorCloses ==
    \A c \in Conns :
        conns[c].last = "decode_error" =>
            conns[c].closed /\ c \notin server.clients /\ ~conns[c].armed

\* C8: a read completion answered with a command error leaves the connection
\* Active, and the next data on that connection is decoded and answered.
C8_CommandErrorsKeepOpen ==
    [][\A c \in Conns :
          /\ (DataCompletion(c) /\ HasCommandError(conns'[c].lastWire)) => Active(c)'
          /\ (DataCompletion(c) /\ HasCommandError(conns[c].lastWire) /\ Active(c)) =>
                /\ conns'[c].last \in {"frames", "decode_error"}
                /\ conns'[c].armed => conns'[c].lastWire # <<>>]_vars

\* A connection answered PING after it was sent a command error.
C8_Witness ==
    \E c \in Conns :
        /\ Active(c)
        /\ HasEveryCommandError(conns[c].wire)
        /\ conns[c].lastWire = <<"+", "P", "O", "N", "G", CR, LF>>

\* C9: a connection that closes inside a callback leaves the registry and
\* has its descriptor appended to pendingFDs, still not closed; descriptors
\* are closed only by run, in flushPendingFDs or the force-close.
C9_TwoPhaseClose ==
    [][\A c \in Conns :
          /\ (Polling /\ ~conns[c].closed /\ conns'[c].closed) =>
                /\ c \notin server'.clients
                /\ c \in Range(server'.pendingFDs)
                /\ conns'[c].fd = conns[c].fd
          /\ (conns[c].fd # "closed" /\ conns'[c].fd = "closed") =>
                \/ run.pc \in {"flush", "drain_flush"} /\ c \in Range(server.pendingFDs)
                \/ run.pc = "force"]_vars

\* The descriptor of a connection whose peer went away was closed by a drain
\* of the queue, after the callback.
C9_Witness ==
    \E c \in Conns :
        /\ conns[c].last \in {"eof", "read_error", "frames"}
        /\ conns[c].closed
        /\ conns[c].fd = "closed"
        /\ c \notin run.clients
        /\ run.pc = "check"

ShutdownStep == run.pc = "shutdown" /\ run'.pc # "shutdown"

C12_ReclaimOnlyByLoop ==
    [][(\E c \in Conns : conns[c].fd # "closed" /\ conns'[c].fd = "closed") =>
          /\ ~Polling
          /\ run.pc \in {"flush", "drain_flush", "force"} /\ run'.pc # run.pc
          /\ closePc' = closePc]_vars

\* Close has returned and every descriptor is closed: one after a failed
\* write of replies, the others of connections the shutdown had shut down.
C12_Witness ==
    /\ \E k \in Closers : closePc[k] = "returned" /\ server.doneCh = "closed"
    /\ \A c \in Conns : conns[c].fd = "closed"
    /\ run.clients # {}
    /\ \E c \in Conns \ run.clients : conns[c].last = "frames"

\* ----------------------------------------------------- command claims
\* The payload of an inline reply: what stands between the type byte and
\* the closing CR LF.
InlinePayload(reply) == SubSeq(reply, 2, Len(reply) - 2)

\* A command whose name holds CR LF.
NewlineCommand == CmdFrame(<<<<"X", CR, LF, "Y">>>>)

\* C13 (as stated): every Error or SimpleString reply written has a payload
\* without CR or LF, and a command whose name holds CR LF is answered with
\* the generic 'ERR internal encode error' reply.
C13_InlineRepliesSingleLine ==
    \A i \in 1..Len(executed) :
        /\ executed[i].reply[1] \in {"+", "-"} =>
              ~hasRESPNewline(InlinePayload(executed[i].reply))
        /\ executed[i].frame = NewlineCommand =>
              executed[i].reply = Encode(redisError("ERR internal encode error")).bytes

IsToken(v) == v.kind \in {KindBulkString, KindSimpleString}

\* An Array of at least one element whose elements are all tokens.
IsCommandFrame(f) ==
    /\ f.kind = KindArray
    /\ Len(f.array) >= 1
    /\ \A i \in 1..Len(f.array) : IsToken(f.array[i])

\* Not an Array, an empty Array, or a first element that is no token.
HeadInvalid(f) ==
    f.kind # KindArray \/ Len(f.array) = 0 \/ ~IsToken(f.array[1])

ValueKinds ==
    {KindSimpleString, KindError, KindInteger, KindBulkString, KindArray, KindNull}

ProtocolErrorTexts ==
    {"ERR Protocol error: command must be array", "ERR Protocol error: empty command"}
    \cup {"ERR Protocol error: invalid command token kind " \o k : k \in ValueKinds}

CommandNames ==
    {<<"P", "I", "N", "G">>, <<"E", "C", "H", "O">>, <<"S", "E", "T">>,
     <<"G", "E", "T">>, <<"D", "E", "L">>, <<"I", "N", "C", "R">>}

\* The element counts each command takes, its name included.
ArityOk(name, n) ==
    CASE name = <<"P", "I", "N", "G">> -> n \in {1, 2}
      [] name = <<"D", "E", "L">> -> n >= 2
      [] name = <<"S", "E", "T">> -> n = 3
      [] OTHER -> n = 2

IsErrorReply(r, texts) ==
    Len(r) = 4 /\ r[1] = "-" /\ r[2] \in texts /\ r[3] = CR /\ r[4] = LF

IsProtocolErrorReply(r) == IsErrorReply(r, ProtocolErrorTexts)

IsWrongArityReply(r) ==
    IsErrorReply(r, {"ERR wrong number of arguments for '" \o c \o "' command" :
                        c \in {"ping", "echo", "set", "get", "del", "incr"}})

IsUnknownCommandReply(r) ==
    Len(r) >= 2 /\ r[1] = "-" /\ r[2] = "ERR unknown command '"

\* The store before the i-th executed frame.
StoreBefore(i) == IF i = 1 THEN NewStore ELSE executed[i - 1].kv

\* C14 (as stated): a frame that is not an Array, is an empty Array or has
\* an element of another kind than BulkString or SimpleString at any
\* position is answered with a protocol-error reply and leaves the Store
\* as it was.
C14_InvalidFramesProtocolError ==
    \A i \in 1..Len(executed) :
        ~IsCommandFrame(executed[i].frame) =>
            /\ IsProtocolErrorReply(executed[i].reply)
            /\ executed[i].kv = StoreBefore(i)

\* C14 (amended): a frame that is not an Array of tokens is never executed:
\* it is answered with one Error reply and leaves the Store as it was.  The
\* reply is the protocol-error reply when the frame is not an Array, is
\* empty or its first element is no token, and when a known command with an
\* accepted element count has an argument that is no token; the element
\* count and the command name are checked before the arguments, so a wrong
\* count is answered with the wrong-arity reply and an unknown name with the
\* unknown-command reply.
C14_InvalidFramesAnsweredWithError ==
    \A i \in 1..Len(executed) :
        LET f == executed[i].frame
            r == executed[i].reply
            names == {nm \in CommandNames : commandIs(tokenBytes(f.array[1]).b, nm)}
        IN ~IsCommandFrame(f) =>
            /\ r[1] = "-"
            /\ executed[i].kv = StoreBefore(i)
            /\ IF HeadInvalid(f) THEN IsProtocolErrorReply(r)
               ELSE IF names = {} THEN IsUnknownCommandReply(r)
               ELSE IF \E nm \in names : ArityOk(nm, Len(f.array))
                    THEN IsProtocolErrorReply(r)
                    ELSE IsWrongArityReply(r)

\* After SET k a, a DEL whose second key is an Integer got the protocol-error
\* reply and deleted nothing, and PING with two Integers got the wrong-arity
\* reply.
C14_Witness ==
    /\ Len(executed) = 3
    /\ executed[1].frame = CmdFrame(<<<<"S", "E", "T">>, <<"k">>, <<"a">>>>)
    /\ executed[2].frame =
          Array(<<BulkString(<<"D", "E", "L">>), BulkString(<<"k">>), Integer(1)>>)
    /\ IsProtocolErrorReply(executed[2].reply)
    /\ executed[2].kv = executed[1].kv /\ <<"k">> \in DOMAIN executed[2].kv
    /\ executed[3].frame =
          Array(<<BulkString(<<"P", "I", "N", "G">>), Integer(1), Integer(2)>>)
    /\ IsWrongArityReply(executed[3].reply)

\* The i-th token of a command frame.
Tok(f, i) == tokenBytes(f.array[i]).b

\* f is the command nm with n elements in all.
IsCmd(f, nm, n) ==
    IsCommandFrame(f) /\ commandIs(Tok(f, 1), nm) /\ Len(f.array) = n

IsDel(f) ==
    IsCommandFrame(f) /\ commandIs(Tok(f, 1), <<"D", "E", "L">>) /\ Len(f.array) >= 2

\* The keys a DEL lists.
Listed(f) == {Tok(f, i) : i \in 2..Len(f.array)}

IsSetOf(f, k) == IsCmd(f, <<"S", "E", "T">>, 3) /\ Tok(f, 2) = k
IsGetOf(f, k) == IsCmd(f, <<"G", "E", "T">>, 2) /\ Tok(f, 2) = k
IsIncrOf(f, k) == IsCmd(f, <<"I", "N", "C", "R">>, 2) /\ Tok(f, 2) = k
IsDelOf(f, k) == IsDel(f) /\ k \in Listed(f)

\* The j-th executed frame wrote or deleted k: a SET of k, an INCR of k that
\* returned an integer, or a DEL that lists k.
Touches(j, k) ==
    \/ IsSetOf(executed[j].frame, k)
    \/ IsIncrOf(executed[j].frame, k) /\ executed[j].reply[1] = ":"
    \/ IsDelOf(executed[j].frame, k)

\* The value of k before the i-th executed frame, told from the commands
\* and replies before it alone: [v, ok].
ValueBefore(i, k) ==
    LET js == {j \in 1..(i - 1) : Touches(j, k)}
        last == CHOOSE j \in js : \A h \in js : h <= j
    IN IF js = {} THEN [v |-> <<>>, ok |-> FALSE]
       ELSE IF IsDelOf(executed[last].frame, k) THEN [v |-> <<>>, ok |-> FALSE]
       ELSE IF IsSetOf(executed[last].frame, k)
            THEN [v |-> Tok(executed[last].frame, 3), ok |-> TRUE]
       ELSE [v |-> InlinePayload(executed[last].reply), ok |-> TRUE]

KeysUsed == {<<"k">>, <<"j">>}

\* C16: GET k returns the value of the most recent SET k, or the decimal
\* text of the most recent INCR k, not followed by a DEL of k, and Null when
\* there is none; DEL returns the number of distinct listed keys that
\* existed and leaves every listed key absent.
C16_SetGetDelSemantics ==
    \A i \in 1..Len(executed) :
        LET f == executed[i].frame
            r == executed[i].reply
        IN /\ \A k \in KeysUsed :
                IsGetOf(f, k) =>
                    r = IF ValueBefore(i, k).ok
                        THEN Encode(BulkString(ValueBefore(i, k).v)).bytes
                        ELSE Encode(Null).bytes
           /\ IsDel(f) =>
                /\ r = Encode(Integer(Cardinality(
                            {k \in Listed(f) : ValueBefore(i, k).ok}))).bytes
                /\ \A k \in Listed(f) : k \notin DOMAIN executed[i].kv
           /\ \A k \in KeysUsed :
                (k \in DOMAIN executed[i].kv) = ValueBefore(i + 1, k).ok

\* SET k a, then DEL k k returned 1, then GET k returned Null.
C16_Witness ==
    /\ Len(executed) = 3
    /\ IsSetOf(executed[1].frame, <<"k">>)
    /\ executed[2].frame = CmdFrame(<<<<"D", "E", "L">>, <<"k">>, <<"k">>>>)
    /\ executed[2].reply = <<":", "1">> \o CRLF
    /\ IsGetOf(executed[3].frame, <<"k">>)
    /\ executed[3].reply = <<"$", "-", "1">> \o CRLF

\* GET k returned the text "10" that INCR k wrote over SET k 9.
C16_WitnessIncr ==
    /\ Len(executed) = 3
    /\ IsSetOf(executed[1].frame, <<"k">>)
    /\ IsIncrOf(executed[2].frame, <<"k">>)
    /\ IsGetOf(executed[3].frame, <<"k">>)
    /\ executed[3].reply = <<"$", "2">> \o CRLF \o <<"1", "0">> \o CRLF

NotIntegerReply == <<"-", "ERR value is not an integer or out of range">> \o CRLF

\* C17: INCR on a key whose stored value does not parse as a base-10 signed
\* integer of the machine width is answered with the 'ERR value is not an
\* integer or out of range' Error reply and leaves the value of that key
\* and of every other key as it was.
C17_IncrNonIntegerKeepsValue ==
    \A i \in 1..Len(executed) :
        \A k \in KeysUsed :
            (/\ IsIncrOf(executed[i].frame, k)
             /\ k \in DOMAIN StoreBefore(i)
             /\ ~ParseInt(StoreBefore(i)[k]).ok) =>
                /\ executed[i].reply = NotIntegerReply
                /\ executed[i].kv = StoreBefore(i)

\* INCR was refused on the digits of IntMax + 1, which are out of range,
\* and k still holds those digits.
C17_Witness ==
    /\ Len(executed) = 3
    /\ executed[1].frame = CmdFrame(<<<<"S", "E", "T">>, <<"k">>, FormatInt(IntMax + 1)>>)
    /\ IsIncrOf(executed[2].frame, <<"k">>)
    /\ executed[2].reply = NotIntegerReply
    /\ IsGetOf(executed[3].frame, <<"k">>)
    /\ executed[3].reply = Encode(BulkString(FormatInt(IntMax + 1))).bytes

\* ------------------------------------------- server claims, continued
NotArrayReply == <<"-", "ERR Protocol error: command must be array">> \o CRLF

PongReply == <<"+", "P", "O", "N", "G">> \o CRLF

\* The replies a connection with an empty parser buffer writes for data d.
RepliesTo(d) == appendResponses(kv, <<>>, Feed(NewParser, d).out).dst

\* C15: a read completion that carried a well-formed frame that is no Array
\* is answered 'ERR Protocol error: command must be array' and leaves the
\* connection Active; the next data on that connection is decoded, and its
\* commands are executed and answered.
C15_NonArrayKeepsOpen ==
    [][\A c \in Conns :
          /\ (DataCompletion(c) /\ conns'[c].lastWire = NotArrayReply) => Active(c)'
          /\ (DataCompletion(c) /\ conns[c].lastWire = NotArrayReply /\ Active(c)) =>
                /\ conns'[c].last \in {"frames", "decode_error"}
                /\ (conns'[c].last = "frames" /\ conns'[c].armed) =>
                      \E d \in ReadInputs : conns'[c].lastWire = RepliesTo(d)]_vars

\* A connection was sent +HELLO and then PING, and answered both.
C15_Witness ==
    \E c \in Conns :
        /\ Active(c)
        /\ conns[c].wire = NotArrayReply \o PongReply
        /\ conns[c].lastWire = PongReply

\* The reply to each frame on its own, in the order of the frames, each
\* command executed on the store the one before left: [replies, kv].
RECURSIVE ReplyList(_, _)
ReplyList(store, frames) ==
    IF frames = <<>> THEN [replies |-> <<>>, kv |-> store]
    ELSE LET r == appendResponse(store, <<>>, Head(frames))
             more == ReplyList(r.kv, Tail(frames))
         IN [replies |-> <<r.dst>> \o more.replies, kv |-> more.kv]

\* Each element of replies is the encoding of exactly one value.
OneValueEach(replies) ==
    \A i \in 1..Len(replies) :
        LET fed == Feed(NewParser, replies[i])
        IN fed.err = "" /\ Len(fed.out) = 1 /\ fed.p.buf = <<>>

\* The write of a read completion that decoded frames, given the replies rl
\* expected for them: all commands are executed, and the replies are on
\* the wire in one piece and in order, or the write failed, nothing of it
\* is on the wire and the connection is closed.
BatchWritten(c, frames, rl) ==
    /\ Len(frames) >= 1
    /\ Len(rl.replies) = Len(frames)
    /\ OneValueEach(rl.replies)
    /\ kv' = rl.kv
    /\ conns'[c].lastWire \in {Flatten(rl.replies), <<>>}
    /\ (conns'[c].lastWire = <<>>) => conns'[c].closed

Phase(conn) ==
    CASE conn.fd = "none" -> 0
      [] conn.fd = "closed" -> 3
      [] conn.closed -> 2
      [] OTHER -> 1

\* How often fd is in the pending-close queue q.
TimesIn(q, fd) == Cardinality({i \in 1..Len(q) : q[i] = fd})

\* C24: a connection only moves forward through Active, Closing, Closed.
\* Once its closed flag is set the flag stays set, its decoder and its wire
\* are left alone and its descriptor is not enqueued again; a read
\* completion on it returns Stop and changes nothing else, no command is
\* executed; close() and shutdown() on it do nothing.
C24_ClosedIsFinal ==
    [][\A c \in Conns :
          /\ Phase(conns'[c]) >= Phase(conns[c])
          /\ conns[c].closed =>
                /\ conns'[c].closed
                /\ c \notin server'.clients
                /\ conns'[c].parser = conns[c].parser
                /\ conns'[c].wire = conns[c].wire
                /\ TimesIn(server'.pendingFDs, c) <= TimesIn(server.pendingFDs, c)
                /\ close(State, c) = State
                /\ shutdown(State, c) = State
                /\ (conns[c].armed /\ ~conns'[c].armed) =>
                      /\ conns'[c].last = "closed" /\ conns'[c].lastWire = <<>>
                      /\ kv' = kv /\ server' = server
                      /\ \A d \in Conns \ {c} : conns'[d] = conns[d]]_vars

\* The read of a connection that had answered PING completed after the
\* shutdown had set its closed flag; it was returned Stop, the wire still
\* holds only PONG, and the descriptor was closed afterwards.
C24_Witness ==
    \E c \in run.clients :
        /\ conns[c].closed /\ conns[c].last = "closed" /\ ~conns[c].armed
        /\ conns[c].wire = PongReply
        /\ conns[c].fd = "closed"

\* This step is a read completion on slot c, not yet closed, that met a
\* transport error: the completion reported an error or no bytes, or the
\* write of what it had to answer failed.
TransportError(c) ==
    /\ Polling
    /\ conns[c].armed /\ ~conns[c].closed
    /\ conns'[c] # conns[c]
    /\ \/ conns'[c].last \in {"read_error", "eof"}
       \/ conns'[c].last \in {"frames", "decode_error"} /\ conns'[c].lastWire = <<>>

C25_WitnessReadError ==
    \E c \in Conns :
        /\ conns[c].last = "read_error"
        /\ conns[c].wire = <<>>
        /\ conns[c].closed /\ ~conns[c].armed
        /\ c \in Range(server.pendingFDs)

\* A descriptor is closed by this step.
ClosesDescriptor == \E c \in Conns : conns[c].fd # "closed" /\ conns'[c].fd = "closed"

\* C26: once run has observed the stop signal it closes the listener and
\* moves every registered connection to Closing (first step), runs the
\* ShutdownPolls poll-and-drain passes, then closes the descriptors of
\* those connections and releases the event loop; the loop is released by
\* no other step, after it no poll pass runs and no descriptor is closed,
\* and doneCh is closed only after it.
C26_ShutdownOrder ==
    [][/\ ShutdownStep =>
             /\ server.stopCh = "closed"
             /\ server.listener = "accepting" /\ server'.listener = "closed"
             /\ \A c \in server.clients : conns'[c].closed /\ conns'[c].fd = "shut"
             /\ server'.clients = {}
             /\ ~ClosesDescriptor
             /\ run'.i = 0
       /\ run.pc \in {"drain_poll", "drain_flush", "force"} =>
             /\ server.listener = "closed" /\ server.clients = {}
             /\ \A c \in run.clients : conns[c].closed
             /\ server.loop = "open"
       /\ run.pc \in {"drain_poll", "drain_flush"} => run.i < ShutdownPolls
       /\ (run.pc = "force" /\ run'.pc # "force") =>
             /\ run.i = ShutdownPolls
             /\ \A c \in run.clients : conns'[c].fd = "closed"
             /\ server'.pendingFDs = <<>>
             /\ server'.loop = "closed"
       /\ (server.loop = "open" /\ server'.loop = "closed") => run.pc = "force"
       /\ server.loop = "closed" =>
             /\ run.pc \in {"return", "done"}
             /\ ~Polling /\ ~Polling'
             /\ conns' = conns
             /\ server'.loop = "closed"
       /\ (server.doneCh = "open" /\ server'.doneCh = "closed") =>
             /\ run.pc = "return" /\ server.loop = "closed"
             /\ server.listener = "closed"
             /\ \A c \in Conns : conns[c].fd \in {"none", "closed"}]_vars

\* run has returned after a shutdown that found both connections
\* registered: all passes were made, both descriptors are closed, the loop
\* is released and doneCh is closed.
C26_Witness ==
    /\ run.pc = "done"
    /\ run.clients = Conns
    /\ run.i = ShutdownPolls
    /\ server.listener = "closed" /\ server.loop = "closed" /\ server.doneCh = "closed"
    /\ \A c \in Conns : conns[c].fd = "closed" /\ conns[c].last = "closed"

\* C27: an iteration of run that finds no stop signal makes one poll
\* pass, then drains the pending-close queue, then starts over; descriptors
\* are enqueued only by callbacks during a poll pass, none is closed during
\* the pass, and the drain that follows the pass closes every one of them
\* and empties the queue, so the queue is empty whenever run is not in a
\* pass or about to drain; every enqueued descriptor is eventually closed.
C27_LoopStepOrder ==
    /\ [][ /\ (run.pc = "check" /\ run'.pc # "check" /\ server.stopCh = "open") =>
                 run'.pc = "poll"
           /\ (run.pc = "poll" /\ run'.pc # "poll") => run'.pc = "flush"
           /\ (run.pc = "flush" /\ run'.pc # "flush") =>
                 /\ run'.pc = "check"
                 /\ server'.pendingFDs = <<>>
                 /\ \A c \in Range(server.pendingFDs) : conns'[c].fd = "closed"
           /\ Len(server'.pendingFDs) > Len(server.pendingFDs) =>
                 Polling /\ run' = run
           /\ Polling => ~ClosesDescriptor]_vars
    /\ [](server.pendingFDs # <<>> =>
             run.pc \in {"poll", "flush", "drain_poll", "drain_flush"})
    /\ \A c \in Conns : (c \in Range(server.pendingFDs)) ~> (conns[c].fd = "closed")

\* No Close was called: both connections were closed by their peers, each
\* was enqueued during a poll pass and closed by a drain, and run is back at
\* its select with the queue empty.
C27_Witness ==
    /\ run.pc = "check"
    /\ ~server.stopped
    /\ server.pendingFDs = <<>>
    /\ \A c \in Conns : conns[c].fd = "closed" /\ conns[c].last \in {"eof", "read_error"}

\* A peer is accepted into slot c by this step.
AcceptedInto(c) == conns[c].fd = "none" /\ conns'[c].fd # "none"

\* The slot the next accepted connection takes.
FreeSlots == {c \in Conns : conns[c].fd = "none" /\ \A d \in Conns : d < c => conns[d].fd # "none"}

\* C28: onAccept returns Continue on success and on an accept error; an
\* accept error leaves the server state as it was; a successful accept
\* registers exactly one new connection, with an empty Parser of its own,
\* and arms its first read, and changes nothing else; if arming the read
\* fails the new connection is closed again: flagged closed, out of the
\* registry and its descriptor enqueued.
C28_AcceptAlwaysContinues ==
    [][/\ \A c \in FreeSlots :
             /\ onAccept(State, c, TRUE) = [st |-> State, armed |-> FALSE, action |-> Continue]
             /\ onAccept(State, c, FALSE).action = Continue
             /\ LET failed == armFirstRead(onAccept(State, c, FALSE).st, c, TRUE)
                IN /\ failed.action = Continue /\ ~failed.armed
                   /\ failed.st.conns[c].closed
                   /\ failed.st.server.clients = server.clients
                   /\ failed.st.server.pendingFDs = Append(server.pendingFDs, c)
       /\ \A c \in Conns :
             AcceptedInto(c) =>
                /\ Polling /\ server.listener = "accepting"
                /\ c \in FreeSlots
                /\ server' = [server EXCEPT !.clients = @ \cup {c}]
                /\ c \notin server.clients
                /\ conns' = [conns EXCEPT ![c] = [NoConn EXCEPT !.fd = "open", !.armed = TRUE]]
                /\ conns'[c].parser = NewParser
                /\ kv' = kv /\ run' = run
       /\ (server.listener = "accepting" /\ server'.listener # "accepting") =>
             ShutdownStep /\ server'.listener = "closed"]_vars

\* Two peers were accepted one after the other: both are registered, each
\* with an empty parser and its read armed, and the listener still accepts.
C28_Witness ==
    /\ server.clients = Conns
    /\ server.listener = "accepting"
    /\ \A c \in Conns : conns[c] = [NoConn EXCEPT !.fd = "open", !.armed = TRUE]

\* ----------------------------------------------------- encoder claims
\* v is, or holds at some array nesting level, a SimpleString or Error
\* whose payload has CR or LF.
RECURSIVE HasInlineNewline(_)
HasInlineNewline(v) ==
    \/ v.kind \in {KindSimpleString, KindError} /\
          \E i \in 1..Len(v.str) : v.str[i] \in {CR, LF}
    \/ v.kind = KindArray /\ \E i \in 1..Len(v.array) : HasInlineNewline(v.array[i])

\* C20: Encode fails with an error and returns no bytes when the value is,
\* or holds at any array nesting level, a SimpleString or Error whose
\* payload has CR or LF; for every other value it succeeds.
C20_EncodeValidatesInline ==
    enc.done =>
        IF HasInlineNewline(enc.v)
        THEN enc.err # "" /\ enc.bytes = <<>>
        ELSE enc.err = "" /\ enc.bytes # <<>>

\* Encode refused an array whose nested array holds an Error with LF, after
\* bytes of the elements before it had been appended.
C20_Witness ==
    /\ enc.done
    /\ enc.v = Array(<<Array(<<BulkString(CRLF), Error(<<"E", LF>>)>>)>>)
    /\ enc.err # "" /\ enc.bytes = <<>>

\* The bytes of the null bulk string and of the empty bulk string.
NullBulkBytes == <<"$", "-", "1", CR, LF>>

EmptyBulkBytes == <<"$", "0", CR, LF, CR, LF>>

\* C21 as stated: Encode of a BulkString whose payload is absent produces
\* $-1\r\n, the bytes Encode produces for Null.
C21_AbsentBulkEncodesAsNull ==
    (enc.done /\ enc.v.kind = KindBulkString /\ enc.v.bulkNil) =>
        enc.err = "" /\ enc.bytes = NullBulkBytes

\* C21 amended: Encode of a BulkString whose payload is absent produces the
\* empty bulk string $0\r\n\r\n, the bytes of a BulkString with a present empty
\* payload; Encode of Null, and of nothing else at top level, produces $-1\r\n.
C21_AbsentBulkEncodesAsEmpty ==
    enc.done =>
        /\ (enc.v.kind = KindBulkString /\ enc.v.bulkNil) =>
                enc.err = "" /\ enc.bytes = EmptyBulkBytes
        /\ (enc.v.kind = KindBulkString /\ ~enc.v.bulkNil /\ enc.v.bulk = <<>>) =>
                enc.err = "" /\ enc.bytes = EmptyBulkBytes
        /\ (enc.bytes = NullBulkBytes) <=> (enc.v.kind = KindNull)

\* Encode was applied to the BulkString with absent payload and returned the six
\* bytes of the empty bulk string.
C21_Witness ==
    /\ enc.done
    /\ enc.v = BulkAbsent
    /\ enc.err = ""
    /\ enc.bytes = EmptyBulkBytes

\* ------------------------------------------------ dispatch claims
\* The command name as the dispatch compares it: letters in upper case.
UpperName(f) == [i \in 1..Len(Tok(f, 1)) |-> ToUpperByte(Tok(f, 1)[i])]

\* The name appendWrongArity is given for each command.
LowerText(name) ==
    CASE name = <<"P", "I", "N", "G">> -> "ping"
      [] name = <<"E", "C", "H", "O">> -> "echo"
      [] name = <<"S", "E", "T">> -> "set"
      [] name = <<"G", "E", "T">> -> "get"
      [] name = <<"D", "E", "L">> -> "del"
      [] name = <<"I", "N", "C", "R">> -> "incr"

BulkReply(b) == <<"$">> \o FormatInt(Len(b)) \o CRLF \o b \o CRLF

WrongArityReply(name) ==
    <<"-", "ERR wrong number of arguments for '" \o LowerText(name) \o "' command",
      CR, LF>>

UnknownCommandReply(b) ==
    <<"-", "ERR unknown command '">> \o ToLower(b) \o <<"'", CR, LF>>

\* What the dispatch must answer to a frame whose elements are all tokens.
DispatchReplyOk(f, r) ==
    LET name == UpperName(f)
        n == Len(f.array)
    IN /\ (name = <<"P", "I", "N", "G">> /\ n = 1) => r = <<"+", "P", "O", "N", "G", CR, LF>>
       /\ (name = <<"P", "I", "N", "G">> /\ n = 2) => r = BulkReply(Tok(f, 2))
       /\ (name = <<"P", "I", "N", "G">> /\ n >= 3) => r = WrongArityReply(name)
       /\ (name = <<"E", "C", "H", "O">> /\ n = 2) => r = BulkReply(Tok(f, 2))
       /\ (name \in CommandNames /\ ~ArityOk(name, n)) => r = WrongArityReply(name)
       /\ (name \notin CommandNames) => r = UnknownCommandReply(Tok(f, 1))
       /\ (name \in CommandNames /\ ArityOk(name, n)) =>
              (r[1] # "-" \/ name = <<"I", "N", "C", "R">>)

\* C22: PING without argument replies +PONG, with one argument the BulkString
\* of it, with two or more the wrong-arity error; ECHO with exactly one
\* argument replies the BulkString of it; the name is matched without regard
\* to case; an unknown name replies ERR unknown command '<name lower-cased>';
\* every argument-count mismatch replies ERR wrong number of arguments for
\* '<cmd>' command; none of these replies changes the store.
C22_DispatchReplies ==
    \A i \in 1..Len(executed) :
        LET f == executed[i].frame
        IN IsCommandFrame(f) =>
              /\ DispatchReplyOk(f, executed[i].reply)
              /\ ( \/ UpperName(f) \in {<<"P", "I", "N", "G">>, <<"E", "C", "H", "O">>}
                   \/ UpperName(f) \notin CommandNames
                   \/ ~ArityOk(UpperName(f), Len(f.array)) )
                 => executed[i].kv = StoreBefore(i)

\* After SET k a, pInG hi in mixed case was answered with the bulk string hi
\* and left k in the store.
C22_Witness ==
    /\ Len(executed) = 2
    /\ executed[1].frame = CmdFrame(<<<<"S", "E", "T">>, <<"k">>, <<"a">>>>)
    /\ executed[2].frame = CmdFrame(<<<<"p", "I", "n", "G">>, <<"h", "i">>>>)
    /\ executed[2].reply = <<"$", "2", CR, LF, "h", "i", CR, LF>>
    /\ executed[2].kv = executed[1].kv
    /\ executed[2].kv # NewStore

\* NoExist was answered with the unknown-command error naming noexist, and
\* PING a b with the wrong-arity error naming ping.
C22_WitnessErrors ==
    /\ Len(executed) = 2
    /\ executed[1].frame = CmdFrame(<<<<"N", "o", "E", "x", "i", "s", "t">>>>)
    /\ executed[1].reply =
          <<"-", "ERR unknown command '", "n", "o", "e", "x", "i", "s", "t", "'", CR, LF>>
    /\ executed[2].frame = CmdFrame(<<<<"P", "I", "N", "G">>, <<"a">>, <<"b">>>>)
    /\ executed[2].reply = <<"-", "ERR wrong number of arguments for 'ping' command", CR, LF>>

\* ------------------------------------------------------------ INCR claims
\* The reply that carries the integer n.
IntegerReply(n) == <<":">> \o FormatInt(n) \o CRLF

C33_WitnessAbsent ==
    /\ Len(executed) = 2
    /\ executed[1].frame = CmdFrame(<<<<"I", "N", "C", "R">>, <<"k">>>>)
    /\ executed[1].reply = <<":", "1", CR, LF>>
    /\ executed[1].kv[<<"k">>] = <<"1">>
    /\ executed[2].frame = CmdFrame(<<<<"I", "N", "C", "R">>, <<"k">>>>)
    /\ executed[2].reply = <<":", "2", CR, LF>>
    /\ executed[2].kv[<<"k">>] = <<"2">>

\* C38 (as stated): INCR never wraps: whenever INCR of a key whose value
\* parses as the integer n returns an integer, the integer returned and the
\* integer stored are greater than n.
C38_IncrNeverWraps ==
    \A i \in 1..Len(executed) :
        LET old == StoreGet(StoreBefore(i), <<"k">>)
            new == StoreGet(executed[i].kv, <<"k">>)
            n == ParseInt(old.v)
        IN (/\ IsIncrOf(executed[i].frame, <<"k">>)
            /\ old.ok /\ n.ok
            /\ executed[i].reply[1] = ":") =>
               /\ ParseInt(InlinePayload(executed[i].reply)).n > n.n
               /\ ParseInt(new.v).n > n.n

\* k was set to the digits of the largest integer; INCR returned the
\* smallest integer and stored its text.
C38_Wrapped ==
    /\ Len(executed) = 2
    /\ executed[1].frame = CmdFrame(<<<<"S", "E", "T">>, <<"k">>, FormatInt(IntMax)>>)
    /\ executed[2].frame = CmdFrame(<<<<"I", "N", "C", "R">>, <<"k">>>>)
    /\ executed[2].reply = IntegerReply(IntMin)
    /\ executed[2].kv[<<"k">>] = FormatInt(IntMin)

\* -------------------------------------------------- per-connection claims
\* The server with the one connection c accepted and nothing received.
AloneAccepted(c) ==
    onAccept([server |-> NewServer, conns |-> [d \in Conns |-> NoConn], kv |-> NewStore],
             c, FALSE).st

\* The server after connection c, the only one, got the completions ins.
RECURSIVE Alone(_, _)
Alone(c, ins) ==
    IF ins = <<>> THEN AloneAccepted(c)
    ELSE LET in == ins[Len(ins)]
         IN onRead(Alone(c, SubSeq(ins, 1, Len(ins) - 1)), c, in.data, in.err, in.wok).st

\* The decoder, the closed flag, the registry membership and the bytes
\* written of connection c are what they are in st.
SameConnection(c, st) ==
    /\ conns[c].parser = st.conns[c].parser
    /\ conns[c].closed = st.conns[c].closed
    /\ conns[c].wire = st.conns[c].wire
    /\ (c \in server.clients) = (c \in st.server.clients)

\* This step is a read completion on slot c.
ReadOn(c) == received'[c] # received[c]

\* C34: decoder state is per connection.  A read completion on one
\* connection leaves the parser, the closed flag, the descriptor, the bytes
\* written and the registry membership of every other connection as they
\* were, and changes the Store only when it executed frames; and the
\* parser buffer, the closed flag, the membership and the replies of a
\* connection are those of a server on which this connection is the only
\* one and got the same completions, however the reads of the other
\* connections are interleaved with its own.
C34_DecoderPerConnection ==
    /\ [](\A c \in Conns : conns[c].fd # "none" => SameConnection(c, Alone(c, received[c])))
    /\ [][\A c \in Conns : ReadOn(c) =>
             /\ \A d \in Conns \ {c} :
                   /\ conns'[d] = conns[d]
                   /\ (d \in server'.clients) = (d \in server.clients)
             /\ kv' # kv => conns'[c].last = "frames"]_vars

\* Connection 1 got the first bytes of PING, connection 2 then got the
\* last bytes of a PING and was answered with an Error reply, and
\* connection 1 then got its own last bytes and was answered +PONG: its
\* buffer had kept its first bytes and nothing of connection 2.
C34_Witness ==
    /\ received[1] = <<[data |-> PingStart, err |-> FALSE, wok |-> TRUE],
                       [data |-> PingEnd, err |-> FALSE, wok |-> TRUE]>>
    /\ received[2] = <<[data |-> PingEnd, err |-> FALSE, wok |-> TRUE]>>
    /\ conns[1].wire = PongReply
    /\ conns[1].parser.buf = <<>>
    /\ conns[2].wire # <<>> /\ conns[2].wire[1] = "-"

\* Connection 1 holds the array header of PING in its buffer while
\* connection 2, which got the same header and then the bulk string, was
\* answered +PONG.
C34_WitnessBuffers ==
    /\ received[1] = <<[data |-> PingHeader, err |-> FALSE, wok |-> TRUE]>>
    /\ Len(received[2]) = 2
    /\ conns[1].parser.buf = PingHeader
    /\ conns[1].wire = <<>>
    /\ conns[2].parser.buf = <<>>
    /\ conns[2].wire = PongReply

\* ------------------------------------------------------ descriptor claims
\* No syscall.Close is issued on a descriptor that is closed already: the
\* pending-close queue holds a descriptor at most once and holds no closed
\* one, and the connections the shutdown is about to force-close are
\* neither closed nor queued.
NoDoubleClose ==
    /\ \A c \in Conns :
          /\ TimesIn(server.pendingFDs, c) <= 1
          /\ TimesIn(server.pendingFDs, c) = 1 => conns[c].fd # "closed"
    /\ run.pc = "force" =>
          \A c \in run.clients :
              conns[c].fd # "closed" /\ TimesIn(server.pendingFDs, c) = 0

\* Every accepted descriptor is closed and the pending-close queue is empty.
AllReclaimed ==
    /\ \A c \in Conns : conns[c].fd \in {"none", "closed"}
    /\ server.pendingFDs = <<>>

\* C35 (as stated): no descriptor is closed twice, and after a Close call
\* has returned every accepted descriptor has been closed and the
\* pending-close queue is empty.
C35_EveryDescriptorClosedOnce ==
    /\ NoDoubleClose
    /\ \A k \in Closers : closePc[k] = "returned" => AllReclaimed

\* C35 (what holds): no descriptor is closed twice, and once run has
\* finished, which the Close call that won the compare-and-swap waits for,
\* every accepted descriptor has been closed and the queue is empty.
C35_ClosedOnceWhenRunIsDone ==
    /\ NoDoubleClose
    /\ server.doneCh = "closed" => AllReclaimed

\* A Close call has returned while a connection is registered with its
\* descriptor open and the shutdown sequence has not run.
C35_Witness ==
    /\ \E k \in Closers : closePc[k] = "returned"
    /\ \E c \in Conns : c \in server.clients /\ conns[c].fd = "open"
    /\ run.pc \in {"check", "poll", "flush"}
    /\ server.doneCh = "open"

\* C36: between callbacks a connection is in the registry exactly if it
\* has been accepted and its closed flag is not set, and a connection whose
\* descriptor is on the pending-close queue or is closed is not in the
\* registry.
C36_RegistryInvariant ==
    \A c \in Conns :
        /\ (c \in server.clients) = (conns[c].fd # "none" /\ ~conns[c].closed)
        /\ (TimesIn(server.pendingFDs, c) > 0 \/ conns[c].fd = "closed") =>
              c \notin server.clients

\* One connection is registered and open, and another, accepted before it,
\* has closed itself: it is on the pending-close queue and out of the
\* registry.
C36_Witness ==
    /\ server.clients = {2}
    /\ conns[2].fd = "open" /\ ~conns[2].closed
    /\ conns[1].closed /\ conns[1].fd = "open"
    /\ server.pendingFDs = <<1>>

\* The shutdown emptied the registry: every accepted connection has its
\* closed flag set and its descriptor closed.
C36_WitnessShutdown ==
    /\ run.pc = "done"
    /\ run.clients = Conns
    /\ server.clients = {}
    /\ \A c \in Conns : conns[c].closed /\ conns[c].fd = "closed"

\* ------------------------------------------------------- shutdown claims
\* How far run has got: serving, the stop signal taken, the drain passes,
\* the force-close, returning, returned.
RunRank(pc) ==
    CASE pc \in {"check", "poll", "flush"} -> 0
      [] pc = "shutdown" -> 1
      [] pc \in {"drain_poll", "drain_flush"} -> 2
      [] pc = "force" -> 3
      [] pc = "return" -> 4
      [] pc = "done" -> 5

\* C37: the shutdown sequence runs once, however many Close calls are made
\* and however they interleave.  Only a caller that found stopped false
\* goes on to close the stop channel, the stop channel is open when it is
\* closed (closing it again would panic instead of returning nil) and stays
\* closed, every other caller returns at once, and run enters
\* shutdownInLoop from its select only, goes through it forwards and never
\* enters it again.
C37_ShutdownRunsOnce ==
    /\ [][\A k \in Closers :
             /\ (closePc[k] = "idle" /\ closePc'[k] # "idle") =>
                   closePc'[k] = (IF server.stopped THEN "returned" ELSE "signal")
             /\ (closePc[k] = "signal" /\ closePc'[k] # "signal") =>
                   /\ server.stopCh = "open"
                   /\ server'.stopCh = "closed"
                   /\ closePc'[k] = "wait"
             /\ (closePc[k] = "wait" /\ closePc'[k] # "wait") => closePc'[k] = "returned"
             /\ closePc[k] = "returned" => closePc'[k] = "returned"]_vars
    /\ [][/\ server.stopCh = "closed" => server'.stopCh = "closed"
          /\ RunRank(run'.pc) >= RunRank(run.pc)
          /\ (RunRank(run'.pc) = 1 /\ RunRank(run.pc) # 1) =>
                run.pc = "check" /\ server.stopCh = "closed"]_vars
    /\ [](Cardinality({k \in Closers : closePc[k] \in {"signal", "wait"}}) <= 1)

\* Every Close call has returned, one of them after run finished the one
\* shutdown sequence.
C37_Witness ==
    /\ \A k \in Closers : closePc[k] = "returned"
    /\ server.stopCh = "closed"
    /\ server.doneCh = "closed"
    /\ run.pc = "done"

\* ------------------------------------------------------- dispatcher claims
\* C39 (as stated): for every frame and every store, appendResponse appends
\* the reply bytes and leaves the store that decodeCommand, execute and
\* Encode, with the internal-encode-error substitution, produce.
C39_DispatchersAgree ==
    \A i \in 1..Len(executed) :
        LET r == executeEncoded(StoreBefore(i), <<>>, executed[i].frame)
        IN executed[i].reply = r.dst /\ executed[i].kv = r.kv

\* Every element of the frame but the first is a token.
ArgumentsAreTokens(f) ==
    f.kind = KindArray => \A i \in 2..Len(f.array) : tokenString(f.array[i]).ok

\* The frame is a command whose name is none of the six and holds CR or LF.
UnknownWithNewline(f) ==
    /\ IsCommandFrame(f)
    /\ \A nm \in CommandNames : ~commandIs(Tok(f, 1), nm)
    /\ hasRESPNewline(Tok(f, 1))

\* C39 (where the two agree): on every frame whose arguments are tokens,
\* but an unknown command with CR or LF in its name, the reply bytes and
\* the store are the same; and the store is the same on every frame.
C39_AgreeOnTokenFrames ==
    \A i \in 1..Len(executed) :
        LET f == executed[i].frame
            r == executeEncoded(StoreBefore(i), <<>>, f)
        IN /\ executed[i].kv = r.kv
           /\ (ArgumentsAreTokens(f) /\ ~UnknownWithNewline(f)) => executed[i].reply = r.dst

\* The command X CR LF Y was answered with the unknown-command text, CR LF
\* inside, where execute and Encode answer with the internal encode error.
C39_Witness ==
    /\ Len(executed) = 1
    /\ executed[1].frame = NewlineCommand
    /\ hasRESPNewline(InlinePayload(executed[1].reply))
    /\ executeEncoded(NewStore, <<>>, NewlineCommand).dst =
          <<"-", "ERR internal encode error", CR, LF>>

\* ---------------------------------------------------- parser buffer claims
\* What parseAt finds at the start of the parser's buffer.
AtBufferStart == parseAt(parser, parser.buf, 0, 0)

\* C40: across every Feed call that returns no error, the previous buffer
\* followed by the input is cut in two: a prefix that is exactly the bytes
\* of the frames the call returned, in order, and the retained buffer; the
\* retained buffer is empty or starts with a frame that is not complete;
\* and Feed with no input on an empty buffer returns no value and no
\* error and leaves the parser as it was.
C40_BufferInvariant ==
    /\ [][feedErrs' = feedErrs =>
             LET in == SubSeq(rest, 1, Len(rest) - Len(rest'))
                 all == parser.buf \o in
                 k == Len(all) - Len(parser'.buf)
                 out == SubSeq(decoded', Len(decoded) + 1, Len(decoded'))
             IN /\ k >= 0
                /\ parser'.buf = SubSeq(all, k + 1, Len(all))
                /\ feedLoop(parser, SubSeq(all, 1, k), 0, <<>>) =
                      [out |-> out, offset |-> k, err |-> ""]
                /\ all = <<>> => out = <<>> /\ parser' = parser]_vars
    /\ [](parser.buf # <<>> => AtBufferStart.err = "" /\ ~AtBufferStart.complete)
    /\ [](Feed([parser EXCEPT !.buf = <<>>], <<>>) =
             [p |-> [parser EXCEPT !.buf = <<>>], out |-> <<>>, err |-> ""])

\* A Feed call returned the first frame of the input and kept the bytes
\* that follow it, the beginning of a second frame, for the next call.
C40_Witness ==
    /\ sent = <<>>
    /\ Len(decoded) = 1 /\ feedErrs = <<>>
    /\ parser.buf # <<>> /\ rest # <<>>
    /\ parser.buf = SubSeq(whole, FedLen - Len(parser.buf) + 1, FedLen)

\* Feed was called with no input on the empty buffer: nothing was returned
\* and nothing is kept.
C40_WitnessEmptyFeed ==
    /\ feedCalls = 1 /\ FedLen = 0 /\ whole # <<>>
    /\ decoded = <<>> /\ feedErrs = <<>> /\ parser.buf = <<>>

====
